---- MODULE Spec2Model ----
(***************************************************************************)
(* State-machine model of the transcode service of ripping-toolchain       *)
(* (src/transcode/transcode_mqtt.py): the job queue (in-memory and SQLite  *)
(* backings), the MQTT intake callback, the worker loop and the encoder    *)
(* state machine of transcode_dir.                                         *)
(*                                                                         *)
(* Three specifications share the module.                                  *)
(*   SpecQueue  the job queue under JOB_QUEUE_BACKEND memory or sqlite,    *)
(*              with one or two worker processes on one store and a clock; *)
(*   Spec       one worker process: on_message, the in-memory queue,       *)
(*              worker_loop and transcode_dir;                             *)
(*   SpecGpu    two worker processes on one host running the encoder       *)
(*              state machine against the same GPU lock.                   *)
(***************************************************************************)
EXTENDS Integers, Sequences, FiniteSets, TLC

\* ------------------------------------------------------------------ bounds
\* jobs put on the queue during one behaviour
MaxPut == 2
\* last instant of the clock (seconds since the model's epoch)
MaxTime == 3
\* JOB_QUEUE_CLAIM_TTL, scaled down from its default of 300 s
ClaimTTL == 1

\* SQL NULL in the claimed_ts column
NULL == -1

\* worker processes attached to one persistent store
Workers == 1..2

\* ------------------------------------------------------------------ paths
\* A path is the tuple pathlib calls Path.parts: <<"/", "raw", "dvd">> is
\* /raw/dvd.  Python's None (no path) is the empty tuple.
NoPath == <<>>

IsPrefix(p, q) == Len(p) <= Len(q) /\ SubSeq(q, 1, Len(p)) = p

\* ------------------------------------------------------------------ state
VARIABLES
  \* --- the clock: int(time.time())
  now,
  \* --- JOB_QUEUE_BACKEND and the number of worker processes started
  backend, nworkers,
  \* --- SQLiteJobQueue: table jobs, id -> [payload, claimed_ts]
  \*     (created_ts is written by put and read nowhere: left out)
  rows, next_rowid,
  \* --- queue.Queue: the FIFO of [id, job] entries (id: insertion number)
  \*     and its count of unfinished tasks
  mq, mq_unfinished, mq_next,
  \* --- each worker's position in get()/_claim_next_job and its locals
  wpc, reclaim_before, sel, claimed_ts, held,
  \* --- history: what put() was given (ids without a task_done so far),
  \*     for which ids task_done was called,
  \*     the id of the entry each worker holds, whether a worker ever died
  put_log, done_called, got_id, reclaimed, died

qvars == <<now, backend, nworkers, rows, next_rowid, mq, mq_unfinished,
           mq_next, wpc, reclaim_before, sel, claimed_ts, held, put_log,
           done_called, got_id, reclaimed, died>>

VARIABLES
  \* --- configuration read at start-up: ENABLE_SW_FALLBACK,
  \*     ENABLE_AAC_DOWNMIX, AUDIO_MODE
  sw_fallback, aac_downmix, audio_mode,
  \* --- intake: messages handled so far and the last one handled
  handled, last_msg,
  \* --- each worker process: its position in worker_loop/transcode_dir,
  \*     the job it took, the work items (mkv_files), the loop index, the
  \*     index of the hardware encoder and the attempt number, how
  \*     transcode_dir ended
  pc, cur, items, idx, enc, attempt, outcome,
  \* --- the work item in hand: source, destination, probed codec, the
  \*     events published for it and the encoder invocations made for it
  item,
  \* --- the host: holder of /var/lock/vaapi.lock (0: nobody)
  gpu_lock,
  \* --- the destination tree: files, directories; and, as history, the
  \*     files that a successful encoder run wrote (or that were there
  \*     from the start)
  fs, dirs, good

cfgvars == <<sw_fallback, aac_downmix, audio_mode>>
wvars == <<cfgvars, handled, last_msg, pc, cur, items, idx, enc, attempt,
           outcome, item, gpu_lock, fs, dirs, good>>
VARIABLES
  \* --- the reconciler (rescan.py): its command line (--dry-run,
  \*     --allow-ffprobe-failures, a --batch-size value or 0 for none),
  \*     the number of runs so far, whether the latest run built and
  \*     connected an MQTT client
  r_dry, r_allow, r_batch, r_runs, r_conn,
  \* --- the broker: the envelopes the reconciler published, not yet
  \*     delivered to the worker
  r_queue,
  \* --- the reconciler's source type of one directory: the position, the
  \*     inputs (the .source_type markers from the directory up to the
  \*     root, the root's default, the sample height, what ffprobe would
  \*     report) and the outcome (the type, whether ffprobe was run)
  m_pc, m_in, m_out,
  \* --- one reconciler run step by step: the position in main(), the
  \*     failed connection attempts so far, whether the broker is reachable
  c_pc, c_tries, c_up,
  \* --- one work item's stream plan and duration check: the position,
  \*     AUDIO_LANGS, the languages of the source's audio streams, the
  \*     stream indices mapped, the durations of input and output (NULL:
  \*     unknown), whether the duration warning was logged
  i_pc, i_langs, i_audio, i_maps, i_din, i_dout, i_warned,
  \* --- one work item's audio arguments: the position, the job's
  \*     source_type, the channel counts of the selected audio streams
  \*     (NULL: ffprobe gave none), the audio streams mapped and audio_args
  a_pc, a_source_type, a_channels, a_maps, a_args,
  \* --- one work item's interlace decision and video filters: the
  \*     position, QSV_DIRECT, the envelope's interlaced hint, what the
  \*     field-order probe prints, what the frame analysis counts, the
  \*     probes that were run, interlaced_effective, and the encoder
  \*     attempts with their video filters
  d_pc, d_direct, d_hint, d_raw, d_idet, d_probes, d_eff, d_runs

rvars == <<r_dry, r_allow, r_batch, r_runs, r_conn, r_queue,
           m_pc, m_in, m_out, c_pc, c_tries, c_up>>
mvars == <<m_pc, m_in, m_out>>
cvars == <<c_pc, c_tries, c_up>>
ivars == <<i_pc, i_langs, i_audio, i_maps, i_din, i_dout, i_warned,
           a_pc, a_source_type, a_channels, a_maps, a_args>>
dvars == <<d_pc, d_direct, d_hint, d_raw, d_idet, d_probes, d_eff, d_runs>>
xvars == <<rvars, ivars, dvars>>
vars == <<qvars, wvars, xvars>>

\* ------------------------------------------------------------------ jobs
\* The dict on_message puts on the queue.  Python side: path is a parts
\* tuple or NoPath (None), interlaced is "None", "True" or "False".
Envelope(path, mode, source_type, files, interlaced) ==
  [path |-> path, mode |-> mode, source_type |-> source_type,
   files |-> files, interlaced |-> interlaced]

NoJob == [path |-> NoPath, mode |-> "", source_type |-> "", files |-> <<>>,
          interlaced |-> "None", queue_id |-> 0]

\* json.dumps(job, separators=(",", ":")): None -> null, True -> true,
\* False -> false, str -> string, list -> array.
DumpsLoose(job) ==
  [path |-> [t |-> "str", v |-> job.path],
   mode |-> [t |-> "str", v |-> job.mode],
   source_type |-> [t |-> "str", v |-> job.source_type],
   files |-> [i \in 1..Len(job.files) |-> [t |-> "str", v |-> job.files[i]]],
   interlaced |-> [t |-> IF job.interlaced = "True" THEN "true" ELSE "false"]]

JsonDumps(job) ==
  [path |-> IF job.path = NoPath THEN [t |-> "null", v |-> <<>>]
                                 ELSE [t |-> "str", v |-> job.path],
   mode |-> [t |-> "str", v |-> job.mode],
   source_type |-> [t |-> "str", v |-> job.source_type],
   files |-> [i \in 1..Len(job.files) |-> [t |-> "str", v |-> job.files[i]]],
   interlaced |-> [t |-> CASE job.interlaced = "True" -> "true"
                           [] job.interlaced = "False" -> "false"
                           [] OTHER -> "null"]]

\* json.loads(row[1]) followed by payload["_queue_id"] = job_id.
JsonLoads(payload, job_id) ==
  [path |-> IF payload.path.t = "null" THEN NoPath ELSE payload.path.v,
   mode |-> payload.mode.v,
   source_type |-> payload.source_type.v,
   files |-> [i \in 1..Len(payload.files) |-> payload.files[i].v],
   interlaced |-> CASE payload.interlaced.t = "true" -> "True"
                    [] payload.interlaced.t = "false" -> "False"
                    [] OTHER -> "None",
   queue_id |-> job_id]

\* The envelope of a job handed out by get(): its fields without _queue_id.
Fields(job) ==
  Envelope(job.path, job.mode, job.source_type, job.files, job.interlaced)

\* ------------------------------------------------------- filesystem layout
\* SRC_BASE, SERIES_SUBPATH, MOVIE_SUBPATH, SERIES_DST_BASE, MOVIE_DST_BASE
SRC_BASE == <<"/", "raw">>
SERIES_SUBPATH == <<"Serien">>
MOVIE_SUBPATH == <<"Filme">>
SERIES_DST_BASE == <<"/", "media", "Serien">>
MOVIE_DST_BASE == <<"/", "media", "Filme">>

\* the source tree: two episodes of a series, one movie, and a file named
\* like a MakeMKV intermediate
ShowDir == SRC_BASE \o <<"dvd">> \o SERIES_SUBPATH \o <<"Show">>
E01 == ShowDir \o <<"E01.mkv">>
E02 == ShowDir \o <<"E02.mkv">>
TempMkv == ShowDir \o <<"B1_t00.mkv">>
LeonDir == SRC_BASE \o <<"dvd">> \o MOVIE_SUBPATH \o <<"Leon">>
Leon == LeonDir \o <<"Leon.mkv">>

\* -------------------------------------------------- the persistent queue
\* Envelopes put on the queue in SpecQueue.
QueueJobs ==
  { Envelope(NoPath, "series", "dvd", <<E01, E02>>, "None"),
    Envelope(LeonDir, "movie", "dvd", <<Leon>>, "True") }

EmptyRows == [i \in {} |-> 0]

MinOf(S) == CHOOSE x \in S : \A y \in S : x <= y
MaxOf(S) == CHOOSE x \in S : \A y \in S : x >= y

\* WHERE claimed_ts IS NULL OR claimed_ts < ?
ClaimableAtTTL(r, before) == r.claimed_ts = NULL \/ r.claimed_ts <= before

Claimable(r, before) == r.claimed_ts = NULL \/ r.claimed_ts < before

\* SELECT id, payload FROM jobs WHERE ... ORDER BY id ASC LIMIT 1
SelectNewest(before) ==
  MaxOf({i \in DOMAIN rows : Claimable(rows[i], before)})

SelectNext(before) ==
  MinOf({i \in DOMAIN rows : Claimable(rows[i], before)})

\* UPDATE jobs SET claimed_ts = ? WHERE id = ? AND (claimed_ts IS NULL OR
\* claimed_ts < ?): whether the statement changes a row (rowcount = 1)
UpdateUnguarded(job_id, before) == job_id \in DOMAIN rows

UpdateMatches(job_id, before) ==
  job_id \in DOMAIN rows /\ Claimable(rows[job_id], before)

DeleteRow(job_id) == [i \in DOMAIN rows \ {job_id} |-> rows[i]]

NoSel == [id |-> 0, payload |-> JsonDumps(Fields(NoJob))]

\* a worker inside _claim_next_job holds its process's queue lock
InClaim(w) == wpc[w] \in {"select", "stamp", "update"}

memvars == <<mq, mq_unfinished, mq_next>>
wlocals == <<reclaim_before, sel, claimed_ts>>
ghosts == <<got_id, reclaimed>>

\* SQLiteJobQueue.put, called by the intake thread of worker process w
Put(w, job) ==
  /\ backend = "sqlite" /\ w <= nworkers
  /\ ~InClaim(w)
  /\ next_rowid <= MaxPut
  /\ rows' = (next_rowid :> [payload |-> JsonDumps(job), claimed_ts |-> NULL])
             @@ rows
  /\ next_rowid' = next_rowid + 1
  /\ put_log' = (next_rowid :> job) @@ put_log
  /\ UNCHANGED <<now, backend, nworkers, memvars, wpc, wlocals, held,
                 done_called, got_id, reclaimed, died>>
  /\ UNCHANGED <<wvars, xvars>>

\* get(): enter _claim_next_job and compute reclaim_before
ClaimBegin(w) ==
  /\ backend = "sqlite" /\ w <= nworkers
  /\ wpc[w] = "idle"
  /\ reclaim_before' = [reclaim_before EXCEPT ![w] = now - ClaimTTL]
  /\ wpc' = [wpc EXCEPT ![w] = "select"]
  /\ UNCHANGED <<now, backend, nworkers, rows, next_rowid, memvars, sel,
                 claimed_ts, held, put_log, done_called, got_id,
                 reclaimed, died>>
  /\ UNCHANGED <<wvars, xvars>>

\* the SELECT; no row: _claim_next_job returns None and get() waits
ClaimSelect(w) ==
  /\ wpc[w] = "select"
  /\ IF \E i \in DOMAIN rows : Claimable(rows[i], reclaim_before[w])
       THEN LET i == SelectNext(reclaim_before[w]) IN
            /\ sel' = [sel EXCEPT ![w] = [id |-> i, payload |-> rows[i].payload]]
            /\ wpc' = [wpc EXCEPT ![w] = "stamp"]
            /\ UNCHANGED reclaim_before
       ELSE /\ wpc' = [wpc EXCEPT ![w] = "idle"]
            /\ reclaim_before' = [reclaim_before EXCEPT ![w] = 0]
            /\ UNCHANGED sel
  /\ UNCHANGED <<now, backend, nworkers, rows, next_rowid, memvars,
                 claimed_ts, held, put_log, done_called, got_id,
                 reclaimed, died>>
  /\ UNCHANGED <<wvars, xvars>>

\* claimed_ts = int(time.time())
ClaimStamp(w) ==
  /\ wpc[w] = "stamp"
  /\ claimed_ts' = [claimed_ts EXCEPT ![w] = now]
  /\ wpc' = [wpc EXCEPT ![w] = "update"]
  /\ UNCHANGED <<now, backend, nworkers, rows, next_rowid, memvars,
                 reclaim_before, sel, held, put_log, done_called, got_id,
                 reclaimed, died>>
  /\ UNCHANGED <<wvars, xvars>>

\* payloads that json.loads refuses, or loads as something that is no dict
PoisonPayloads == { [t |-> "invalid"], [t |-> "array"] }

\* the rows after a poison payload was met: DELETE FROM jobs WHERE id = ?
PoisonKept(job_id, ts) == [rows EXCEPT ![job_id].claimed_ts = ts]

PoisonDropped(job_id, ts) == DeleteRow(job_id)

\* the conditional UPDATE, the commit, json.loads and the return of get();
\* claimed_ts[w] stays the stamp of w's claim while w holds the job
ClaimUpdate(w) ==
  /\ wpc[w] = "update"
  /\ IF UpdateMatches(sel[w].id, reclaim_before[w])
          /\ sel[w].payload \in PoisonPayloads
       THEN \* json.loads raises or gives no dict: the row is deleted and
            \* _claim_next_job returns None
            /\ rows' = PoisonDropped(sel[w].id, claimed_ts[w])
            /\ wpc' = [wpc EXCEPT ![w] = "idle"]
            /\ claimed_ts' = [claimed_ts EXCEPT ![w] = NULL]
            /\ UNCHANGED <<held, got_id, reclaimed>>
     ELSE IF UpdateMatches(sel[w].id, reclaim_before[w])
       THEN /\ rows' = [rows EXCEPT ![sel[w].id].claimed_ts = claimed_ts[w]]
            /\ held' = [held EXCEPT ![w] = JsonLoads(sel[w].payload, sel[w].id)]
            /\ got_id' = [got_id EXCEPT ![w] = sel[w].id]
            /\ reclaimed' = [reclaimed EXCEPT
                               ![w] = rows[sel[w].id].claimed_ts # NULL]
            /\ wpc' = [wpc EXCEPT ![w] = "hold"]
            /\ UNCHANGED claimed_ts
       ELSE /\ wpc' = [wpc EXCEPT ![w] = "idle"]
            /\ claimed_ts' = [claimed_ts EXCEPT ![w] = NULL]
            /\ UNCHANGED <<rows, held, got_id, reclaimed>>
  /\ reclaim_before' = [reclaim_before EXCEPT ![w] = 0]
  /\ sel' = [sel EXCEPT ![w] = NoSel]
  /\ UNCHANGED <<now, backend, nworkers, next_rowid, memvars, put_log,
                 done_called, died>>
  /\ UNCHANGED <<wvars, xvars>>

\* SQLiteJobQueue.task_done(job)
TaskDone(w) ==
  /\ backend = "sqlite"
  /\ wpc[w] = "hold"
  /\ rows' = DeleteRow(held[w].queue_id)
  /\ done_called' = done_called \cup {held[w].queue_id}
  /\ put_log' = [i \in DOMAIN put_log \ {held[w].queue_id} |-> put_log[i]]
  /\ held' = [held EXCEPT ![w] = NoJob]
  /\ got_id' = [got_id EXCEPT ![w] = 0]
  /\ reclaimed' = [reclaimed EXCEPT ![w] = FALSE]
  /\ claimed_ts' = [claimed_ts EXCEPT ![w] = NULL]
  /\ wpc' = [wpc EXCEPT ![w] = "idle"]
  /\ UNCHANGED <<now, backend, nworkers, next_rowid, memvars,
                 reclaim_before, sel, died>>
  /\ UNCHANGED <<wvars, xvars>>

\* the worker process dies (and is started again): nothing it held in
\* memory survives, the store does
Crash(w) ==
  /\ backend = "sqlite"
  /\ wpc[w] # "idle"
  /\ wpc' = [wpc EXCEPT ![w] = "idle"]
  /\ held' = [held EXCEPT ![w] = NoJob]
  /\ got_id' = [got_id EXCEPT ![w] = 0]
  /\ reclaimed' = [reclaimed EXCEPT ![w] = FALSE]
  /\ reclaim_before' = [reclaim_before EXCEPT ![w] = 0]
  /\ sel' = [sel EXCEPT ![w] = NoSel]
  /\ claimed_ts' = [claimed_ts EXCEPT ![w] = NULL]
  /\ died' = TRUE
  /\ UNCHANGED <<now, backend, nworkers, rows, next_rowid, memvars,
                 put_log, done_called>>
  /\ UNCHANGED <<wvars, xvars>>

\* a second passes
Tick ==
  /\ backend = "sqlite"
  /\ now < MaxTime
  /\ now' = now + 1
  /\ UNCHANGED <<backend, nworkers, rows, next_rowid, memvars, wpc, wlocals,
                 held, put_log, done_called, got_id,
                 reclaimed, died>>
  /\ UNCHANGED <<wvars, xvars>>

\* ---------------------------------------------------- the in-memory queue
\* queue.Queue.put / get / task_done
MemPutOp(job) ==
  /\ mq' = Append(mq, [id |-> mq_next, job |-> job])
  /\ mq_next' = mq_next + 1
  /\ mq_unfinished' = mq_unfinished + 1

MemGetLast ==
  /\ mq # <<>>
  /\ mq' = SubSeq(mq, 1, Len(mq) - 1)
  /\ UNCHANGED <<mq_next, mq_unfinished>>

MemGetOp ==
  /\ mq # <<>>
  /\ mq' = Tail(mq)
  /\ UNCHANGED <<mq_next, mq_unfinished>>

\* task_done() that puts a job whose processing raised back on the queue
MemTaskDoneRequeue ==
  /\ mq_unfinished' = mq_unfinished - 1
  /\ mq' = IF outcome[1] = "raised"
             THEN Append(mq, [id |-> mq_next, job |-> Fields(cur[1])])
             ELSE mq
  /\ UNCHANGED mq_next

MemTaskDoneOp ==
  /\ mq_unfinished' = mq_unfinished - 1
  /\ UNCHANGED <<mq, mq_next>>

MemPut(job) ==
  /\ backend = "memory"
  /\ mq_next <= MaxPut
  /\ MemPutOp(job)
  /\ put_log' = (mq_next :> job) @@ put_log
  /\ UNCHANGED <<now, backend, nworkers, rows, next_rowid, wpc, wlocals,
                 held, done_called, got_id,
                 reclaimed, died>>
  /\ UNCHANGED <<wvars, xvars>>

MemGet ==
  /\ backend = "memory"
  /\ wpc[1] = "idle"
  /\ MemGetOp
  /\ LET e == CHOOSE x \in {mq[i] : i \in 1..Len(mq)} :
                 \A i \in 1..Len(mq') : mq'[i] # x
     IN /\ held' = [held EXCEPT ![1] = [queue_id |-> 0] @@ e.job]
        /\ got_id' = [got_id EXCEPT ![1] = e.id]
        /\ UNCHANGED reclaimed
  /\ wpc' = [wpc EXCEPT ![1] = "hold"]
  /\ UNCHANGED <<now, backend, nworkers, rows, next_rowid, wlocals, put_log,
                 done_called, died>>
  /\ UNCHANGED <<wvars, xvars>>

MemTaskDone ==
  /\ backend = "memory"
  /\ wpc[1] = "hold"
  /\ MemTaskDoneOp
  /\ done_called' = done_called \cup {got_id[1]}
  /\ put_log' = [i \in DOMAIN put_log \ {got_id[1]} |-> put_log[i]]
  /\ held' = [held EXCEPT ![1] = NoJob]
  /\ got_id' = [got_id EXCEPT ![1] = 0]
  /\ UNCHANGED reclaimed
  /\ wpc' = [wpc EXCEPT ![1] = "idle"]
  /\ UNCHANGED <<now, backend, nworkers, rows, next_rowid, wlocals, died>>
  /\ UNCHANGED <<wvars, xvars>>

QueueInit ==
  /\ now = 0
  /\ backend \in {"memory", "sqlite"}
  /\ nworkers \in Workers
  /\ backend = "memory" => nworkers = 1
  /\ rows = EmptyRows /\ next_rowid = 1
  /\ mq = <<>> /\ mq_unfinished = 0 /\ mq_next = 1
  /\ wpc = [w \in Workers |-> "idle"]
  /\ reclaim_before = [w \in Workers |-> 0]
  /\ sel = [w \in Workers |-> NoSel]
  /\ claimed_ts = [w \in Workers |-> NULL]
  /\ held = [w \in Workers |-> NoJob]
  /\ put_log = EmptyRows /\ done_called = {}
  /\ got_id = [w \in Workers |-> 0]
  /\ reclaimed = [w \in Workers |-> FALSE]
  /\ died = FALSE

\* a store that holds payloads the worker did not write: some other writer
\* inserts a row whose payload is no JSON object
PoisonPut(payload) ==
  /\ backend = "sqlite"
  /\ \A w \in Workers : w <= nworkers => ~InClaim(w)
  /\ next_rowid <= MaxPut
  /\ rows' = (next_rowid :> [payload |-> payload, claimed_ts |-> NULL]) @@ rows
  /\ next_rowid' = next_rowid + 1
  /\ UNCHANGED <<now, backend, nworkers, memvars, wpc, wlocals, held, put_log,
                 done_called, got_id, reclaimed, died>>
  /\ UNCHANGED <<wvars, xvars>>

QueueNext ==
  \/ \E w \in Workers, job \in QueueJobs : Put(w, job)
  \/ \E w \in Workers : ClaimBegin(w)
  \/ \E w \in Workers : ClaimSelect(w)
  \/ \E w \in Workers : ClaimStamp(w)
  \/ \E w \in Workers : ClaimUpdate(w)
  \/ \E w \in Workers : TaskDone(w)
  \/ \E w \in Workers : Crash(w)
  \/ Tick
  \/ \E job \in QueueJobs : MemPut(job)
  \/ MemGet
  \/ MemTaskDone


\* ------------------------------------------------ claims about the queue
\* w holds a job whose claim is live: the stamp it wrote is within the TTL
\* (a claim is reclaimable once claimed_ts < now - TTL)
Live(w) ==
  wpc[w] = "hold" /\ claimed_ts[w] # NULL /\ claimed_ts[w] >= now - ClaimTTL

\* C2: however the SELECT and UPDATE steps of the get() calls of different
\* workers interleave on one store, no job is held by two workers whose
\* claims are both live.
C2_OneLiveClaim ==
  \A w1 \in Workers, w2 \in Workers :
    (w1 # w2 /\ Live(w1) /\ Live(w2)) => got_id[w1] # got_id[w2]

\* a worker has selected the row another worker holds with a live claim,
\* and is about to run its conditional UPDATE on it
C2_Witness ==
  \E w1 \in Workers, w2 \in Workers :
    /\ Live(w1) /\ wpc[w2] = "update" /\ sel[w2].id = got_id[w1]
    /\ got_id[w1] \in DOMAIN rows

C5_Durable ==
  backend = "sqlite" =>
    /\ \A i \in DOMAIN put_log :
         i \in DOMAIN rows /\ Fields(JsonLoads(rows[i].payload, i)) = put_log[i]
    /\ \A i \in done_called : i \notin DOMAIN rows
    /\ \A w \in Workers :
         (wpc[w] = "hold" /\ got_id[w] \in DOMAIN put_log)
           => (held[w].queue_id = got_id[w]
               /\ Fields(held[w]) = put_log[got_id[w]])

\* one job was acknowledged and deleted while another, put without a path
\* and without an interlace hint, is held by a worker after a crash
C5_Witness ==
  \E w \in Workers :
    /\ wpc[w] = "hold" /\ held[w].path = NoPath /\ held[w].interlaced = "None"
    /\ held[w].queue_id \in DOMAIN rows
    /\ done_called # {} /\ died

\* C6: get() returns the lowest-id job that is claimable (for the persistent
\* backing: as judged against the cutoff the call computed), a stale-claimed
\* job before any newer one; a single worker that never died therefore
\* holds a job only when every job still queued was put after it.
C6_LowestFirst ==
  /\ [](\A w \in Workers :
          (nworkers = 1 /\ ~died /\ wpc[w] = "hold")
            => /\ \A i \in DOMAIN rows : i >= got_id[w]
               /\ \A k \in 1..Len(mq) : mq[k].id > got_id[w])
  /\ [][\A w \in Workers :
          /\ (wpc[w] = "select" /\ wpc'[w] = "stamp")
               => /\ sel'[w].id \in DOMAIN rows
                  /\ Claimable(rows[sel'[w].id], reclaim_before[w])
                  /\ \A i \in DOMAIN rows :
                       Claimable(rows[i], reclaim_before[w]) => sel'[w].id <= i
          /\ (wpc[w] = "update" /\ wpc'[w] = "hold")
               => got_id'[w] = sel[w].id
          /\ (backend = "memory" /\ wpc[w] = "idle" /\ wpc'[w] = "hold")
               => \A k \in 1..Len(mq) : got_id'[w] <= mq[k].id
       ]_qvars

\* a worker holds a reclaimed job while a newer job waits unclaimed
C6_Witness ==
  \E w \in Workers :
    /\ wpc[w] = "hold" /\ reclaimed[w]
    /\ \E i \in DOMAIN rows : i > got_id[w] /\ rows[i].claimed_ts = NULL

\* ======================================================================
\* The worker process: intake, worker_loop, transcode_dir
\* ======================================================================

\* ------------------------------------------------------------ bounds
\* messages the broker delivers during one behaviour
MaxMsgs == 2

\* worker processes on one host (SpecGpu runs both, Spec the first)
Procs == 1..2

\* ------------------------------------------------------ program constants
MQTT_PAYLOAD_VERSION == 3
MAX_HW_RETRIES == 2

\* ------------------------------------------------------------- pathlib
Parent(p) == SubSeq(p, 1, Len(p) - 1)
Name(p) == p[Len(p)]
\* p.relative_to(base), for base a prefix of p ("." is the empty tuple)
RelativeTo(p, base) == SubSeq(p, Len(base) + 1, Len(p))

\* os.path.commonpath(files)
CommonPath(files) ==
  LET n == MaxOf({k \in 0..Len(files[1]) :
                    \A i \in 1..Len(files) :
                      /\ Len(files[i]) >= k
                      /\ SubSeq(files[i], 1, k) = SubSeq(files[1], 1, k)})
  IN SubSeq(files[1], 1, n)

\* ------------------------------------------------------ the source tree
SrcFileList == <<E01, E02, TempMkv, Leon>>
SrcFiles == {SrcFileList[i] : i \in 1..Len(SrcFileList)}
SrcIsDir(p) == \E f \in SrcFiles : IsPrefix(p, f) /\ p # f
SrcExists(p) == p \in SrcFiles \/ SrcIsDir(p)

\* TEMP_MKV_RE on the file name: of the names of the tree, the one that
\* matches ^[A-Za-z0-9]{2}_[A-Za-z][0-9]{2}\.mkv$
is_temp_mkv(p) == Name(p) \in {"B1_t00.mkv"}

\* str.lower on the path components of the tree
Lower(c) ==
  CASE c = "Serien" -> "serien"
    [] c = "Filme" -> "filme"
    [] c = "Show" -> "show"
    [] c = "Leon" -> "leon"
    [] c = "Leon.mkv" -> "leon.mkv"
    [] c = "E01.mkv" -> "e01.mkv"
    [] c = "E02.mkv" -> "e02.mkv"
    [] c = "B1_t00.mkv" -> "b1_t00.mkv"
    [] OTHER -> c

PartsLower(path) == {Lower(path[i]) : i \in 1..Len(path)}

infer_mode_from_path(path) ==
  IF Lower(Name(MOVIE_SUBPATH)) \in PartsLower(path) THEN "movie"
  ELSE IF Lower(Name(SERIES_SUBPATH)) \in PartsLower(path) THEN "series"
  ELSE ""

infer_source_type_from_path(path) ==
  IF "bluray" \in PartsLower(path) THEN "bluray"
  ELSE IF "dvd" \in PartsLower(path) THEN "dvd"
  ELSE ""

series_src_base_for_source(source_type) ==
  IF source_type \in {"dvd", "bluray"} /\ SrcExists(SRC_BASE \o <<source_type>>)
    THEN SRC_BASE \o <<source_type>> \o SERIES_SUBPATH
    ELSE SRC_BASE \o SERIES_SUBPATH

\* ---------------------------------------------------------------- intake
\* A message: version is <<type, value>> of the JSON value ("absent": no
\* such key); path is NoPath when the key is absent; files is <<>> when the
\* key is absent, not a list or an empty list; mode and source_type are ""
\* when absent; interlaced is "None", "True", "False", or "str" for a value
\* that is not a boolean.
Msg(version, path, files, mode, source_type, interlaced) ==
  [version |-> version, path |-> path, files |-> files, mode |-> mode,
   source_type |-> source_type, interlaced |-> interlaced]

Versions ==
  { <<"absent", 0>>, <<"str", 3>>, <<"float", 3>>, <<"bool", 1>>,
    <<"int", 2>>, <<"int", 3>>, <<"int", 4>> }

Messages ==
  { Msg(v, NoPath, <<E01, E02>>, "series", "dvd", "None") : v \in Versions }
  \cup
  { Msg(<<"int", 3>>, LeonDir, <<Leon>>, "movie", "dvd", "True"),
    Msg(<<"int", 3>>, ShowDir, <<>>, "", "", "None"),
    Msg(<<"int", 3>>, NoPath, <<TempMkv, E02>>, "series", "dvd", "False"),
    Msg(<<"int", 3>>, NoPath, <<Leon>>, "movie", "dvd", "None"),
    Msg(<<"int", 3>>, NoPath, <<>>, "series", "dvd", "None"),
    Msg(<<"int", 3>>, NoPath, <<E01>>, "series", "dvd", "str") }

NoMsg == Msg(<<"absent", 0>>, NoPath, <<>>, "", "", "None")

\* isinstance(version, int) (a bool is an int), version < 3, version != 3
VersionAtLeast(v) ==
  v[1] \in {"int", "bool"} /\ ~(v[2] < MQTT_PAYLOAD_VERSION)

VersionOK(v) ==
  /\ v[1] \in {"int", "bool"}
  /\ ~(v[2] < MQTT_PAYLOAD_VERSION)
  /\ v[2] = MQTT_PAYLOAD_VERSION

\* a path taken as it comes, without path.exists()
IntakePathUnchecked(m) == m.path

\* a mode taken as it comes, without validation or inference
IntakeModeRaw(m) == m.mode

\* on_message up to the put: whether the message is accepted, and the job
IntakePath(m) ==
  IF m.path # NoPath /\ SrcExists(m.path) THEN m.path ELSE NoPath

IntakeMode(m) ==
  IF m.mode \in {"movie", "series"} THEN m.mode
  ELSE IF IntakePath(m) # NoPath THEN infer_mode_from_path(IntakePath(m))
  ELSE ""

IntakeSourceType(m) ==
  IF m.source_type \in {"dvd", "bluray"} THEN m.source_type
  ELSE IF IntakePath(m) # NoPath
    THEN infer_source_type_from_path(IntakePath(m))
  ELSE ""

Accepted(m) ==
  /\ VersionOK(m.version)
  /\ (m.files # <<>> \/ IntakePath(m) # NoPath)
  /\ IntakeMode(m) \in {"movie", "series"}
  /\ IntakeSourceType(m) \in {"dvd", "bluray"}
  /\ m.interlaced \in {"None", "True", "False"}

IntakeJob(m) ==
  Envelope(IntakePath(m), IntakeMode(m), IntakeSourceType(m), m.files,
           m.interlaced)

\* ------------------------------------------- transcode_dir: enumeration
\* src_root (NoPath: None)
SrcRoot(job) ==
  IF job.path # NoPath
    THEN IF SrcIsDir(job.path) THEN job.path ELSE Parent(job.path)
    ELSE IF job.files # <<>> THEN CommonPath(job.files) ELSE NoPath

\* src_dir.rglob("*.mkv") without the intermediates (in the order of the
\* directory listing, here the order of SrcFileList)
Rglob(dir) ==
  SelectSeq(SrcFileList,
            LAMBDA f : IsPrefix(dir, f) /\ f # dir /\ ~is_temp_mkv(f))

\* mkv_files; <<>> also stands for the early returns
MkvFiles(job) ==
  IF job.path # NoPath /\ ~SrcExists(job.path) THEN <<>>
  ELSE IF job.files # <<>>
    THEN SelectSeq(job.files, LAMBDA f : SrcExists(f) /\ ~is_temp_mkv(f))
  ELSE IF job.path # NoPath
    THEN IF SrcIsDir(job.path) THEN Rglob(job.path) ELSE <<job.path>>
  ELSE <<>>

\* the destination of one work item: [ok |-> FALSE] when the item is
\* skipped as "not under configured series base"
DestOf(job, mkv) ==
  LET src_root == SrcRoot(job)
      under_root == src_root # NoPath /\ IsPrefix(src_root, mkv)
      base == series_src_base_for_source(job.source_type)
  IN IF job.mode = "movie"
       THEN [ok |-> TRUE,
             out |-> MOVIE_DST_BASE \o
                     (IF under_root THEN RelativeTo(mkv, src_root)
                                    ELSE <<Name(mkv)>>)]
     ELSE IF IsPrefix(base, mkv)
       THEN [ok |-> TRUE, out |-> SERIES_DST_BASE \o RelativeTo(mkv, base)]
     ELSE IF under_root
       THEN [ok |-> TRUE, out |-> SERIES_DST_BASE \o RelativeTo(mkv, src_root)]
     ELSE [ok |-> FALSE, out |-> NoPath]

\* out.parent and its ancestors: what mkdir(parents=True) makes sure of
Ancestors(p) == {SubSeq(p, 1, k) : k \in 1..(Len(p) - 1)}

\* out.exists()
ExistsAsDir(p) == p \in dirs

Exists(p) == p \in fs \/ p \in dirs

\* --------------------------------------------- transcode_dir: the encoders
\* audio_mode_effective
AudioModeEffective(source_type) ==
  IF audio_mode = "auto"
    THEN IF source_type = "bluray" THEN "encode" ELSE "copy"
    ELSE audio_mode

\* add_downmix; with it set, build_qsv_cmd / build_vaapi_cmd / build_sw_cmd
\* call build_downmix_args() without its required argument: TypeError
CmdBuilderRaises(job) ==
  aac_downmix /\ AudioModeEffective(job.source_type) # "copy"

\* encoders: the hardware encoders tried, in order
Encoders(codec) ==
  IF codec = "vc1" THEN <<"vaapi">> ELSE <<"qsv", "vaapi">>

\* what probe_video_codec may report
Codecs == {"vc1", "h264"}

\* subprocess.run(cmd, check=True): exit 0 with the output written; a failure
\* that wrote nothing (also FileNotFoundError); a failure that left a
\* partial output
RunResults == {"ok", "fail", "partial"}

\* if attempt == 0: mqtt_publish(MQTT_TOPIC_START, ...)
PublishesAlways(a) == TRUE

PublishesStart(a) == a = 0

\* fcntl.flock(lock, LOCK_EX) returns once nobody holds the lock
FlockShared(holder) == TRUE

FlockGranted(holder) == holder = 0

\* the end of "with open(...) as lock": while the loops over the encoders
\* and the attempts go on the lock stays with its holder; leaving the block,
\* by falling out of it or by an exception, closes the file and with it
\* drops the lock
LockLeaked(holder, inside) == holder

LockOnLeave(holder, inside) == IF inside THEN holder ELSE 0

NoItem == [file |-> NoPath, out |-> NoPath, codec |-> "", ev |-> <<>>,
           inv |-> <<>>, over |-> FALSE]

\* the queue state a worker process does not touch while it transcodes
qidle == <<now, backend, nworkers, next_rowid, wpc, wlocals, held, put_log,
           done_called, ghosts, died>>

\* ----------------------------------------------------------------- intake
\* on_message(client, userdata, msg) with the in-memory queue as userdata
Intake(m) ==
  /\ backend = "memory"
  /\ handled < MaxMsgs
  /\ handled' = handled + 1
  /\ last_msg' = m
  /\ IF Accepted(m) THEN MemPutOp(IntakeJob(m)) ELSE UNCHANGED memvars
  /\ UNCHANGED <<qidle, rows, cfgvars, pc, cur, items, idx, enc, attempt,
                 outcome, item, gpu_lock, fs, dirs, good>>

\* a message from the ripper (or anyone else) on the jobs topic
OnMessage(m) ==
  /\ Intake(m)
  /\ UNCHANGED xvars

\* ------------------------------------------------------------ worker_loop
\* job = job_queue.get(); transcode_dir up to the loop over mkv_files
WorkerGet(p) ==
  /\ backend = "memory"
  /\ pc[p] = "get"
  /\ MemGetOp
  /\ cur' = [cur EXCEPT ![p] = [queue_id |-> 0] @@ mq[1].job]
  /\ items' = [items EXCEPT ![p] = MkvFiles(mq[1].job)]
  /\ idx' = [idx EXCEPT ![p] = 1]
  /\ pc' = [pc EXCEPT ![p] = "run"]
  /\ outcome' = [outcome EXCEPT ![p] = "none"]
  /\ UNCHANGED <<qidle, rows, cfgvars, xvars, handled, last_msg, enc, attempt,
                 item, gpu_lock, fs, dirs, good>>

\* for mkv in mkv_files: the work item of the i-th turn of the loop
ItemLast(files, i) == files[Len(files) + 1 - i]

ItemAt(files, i) == files[i]

\* one turn of "for mkv in mkv_files" up to the GPU lock: the destination,
\* mkdir, the skip of an existing output, the probes; past the last item
\* transcode_dir returns
ItemBegin(p) ==
  /\ pc[p] = "run"
  /\ IF idx[p] > Len(items[p])
       THEN /\ pc' = [pc EXCEPT ![p] = "finally"]
            /\ outcome' = [outcome EXCEPT ![p] = "returned"]
            /\ UNCHANGED <<idx, item, dirs, enc, attempt>>
       ELSE LET mkv == ItemAt(items[p], idx[p])
                d == DestOf(cur[p], mkv)
            IN IF ~d.ok
                 THEN /\ idx' = [idx EXCEPT ![p] = @ + 1]
                      /\ UNCHANGED <<pc, outcome, item, dirs, enc, attempt>>
               ELSE IF \E a \in Ancestors(d.out) : a \in fs
                 \* mkdir(parents=True) on a path through a file raises
                 THEN /\ pc' = [pc EXCEPT ![p] = "finally"]
                      /\ outcome' = [outcome EXCEPT ![p] = "raised"]
                      /\ UNCHANGED <<idx, item, dirs, enc, attempt>>
               ELSE /\ dirs' = dirs \cup Ancestors(d.out)
                    /\ IF Exists(d.out)
                         THEN /\ idx' = [idx EXCEPT ![p] = @ + 1]
                              /\ UNCHANGED <<pc, outcome, item, enc, attempt>>
                         ELSE \E codec \in Codecs :
                              /\ item' = [item EXCEPT ![p] =
                                            [file |-> mkv, out |-> d.out,
                                             codec |-> codec, ev |-> <<>>,
                                             inv |-> <<>>, over |-> FALSE]]
                              /\ enc' = [enc EXCEPT ![p] = 1]
                              /\ attempt' = [attempt EXCEPT ![p] = 0]
                              /\ pc' = [pc EXCEPT ![p] = "lock"]
                              /\ UNCHANGED <<idx, outcome>>
  /\ UNCHANGED <<qvars, cfgvars, xvars, handled, last_msg, cur, items, gpu_lock,
                 fs, good>>

\* with open("/var/lock/vaapi.lock", "w") as lock: fcntl.flock(lock, LOCK_EX)
LockAcquire(p) ==
  /\ pc[p] = "lock"
  /\ FlockGranted(gpu_lock)
  /\ gpu_lock' = p
  /\ pc' = [pc EXCEPT ![p] = "hw"]
  /\ UNCHANGED <<qvars, cfgvars, xvars, handled, last_msg, cur, items, idx, enc,
                 attempt, outcome, item, fs, dirs, good>>

\* one turn of "for attempt in range(0, max_hw_retries + 1)" for the encoder
\* in hand, with what follows it when the turn ends the inner loop, the
\* outer loop or the with block
HwAttempt(p) ==
  /\ pc[p] = "hw"
  /\ LET it == item[p]
         label == Encoders(it.codec)[enc[p]]
     IN IF CmdBuilderRaises(cur[p])
          THEN \* cmd_builder() raises: the lock file is closed, the error
               \* event is published and the exception leaves transcode_dir
               /\ item' = [item EXCEPT ![p].ev = Append(@, "error"),
                                       ![p].over = TRUE]
               /\ gpu_lock' = LockOnLeave(gpu_lock, FALSE)
               /\ pc' = [pc EXCEPT ![p] = "finally"]
               /\ outcome' = [outcome EXCEPT ![p] = "raised"]
               /\ UNCHANGED <<fs, good, enc, attempt, idx>>
          ELSE \E res \in RunResults, unlink_ok \in BOOLEAN :
               LET ev1 == IF PublishesStart(attempt[p])
                            THEN Append(it.ev, "start")
                            ELSE it.ev
                   fs_run == IF res = "fail" THEN fs ELSE fs \cup {it.out}
                   \* if out.exists(): out.unlink(), OSError swallowed
                   fs_clean == IF res # "ok" /\ it.out \in fs_run /\ unlink_ok
                                 THEN fs_run \ {it.out}
                                 ELSE fs_run
                   retry == res # "ok" /\ attempt[p] < MAX_HW_RETRIES
                   \* if out.exists(): hw_failed = False; break
                   stop == ~retry /\ it.out \in fs_clean
                   next_enc == /\ ~retry /\ ~stop
                               /\ enc[p] < Len(Encoders(it.codec))
                   hw_failed == ~retry /\ ~stop /\ ~next_enc
                   gave_up == hw_failed /\ ~sw_fallback
               IN /\ fs' = fs_clean
                  /\ good' = IF res = "ok" THEN good \cup {it.out} ELSE good
                  /\ attempt' = [attempt EXCEPT
                                   ![p] = IF retry THEN @ + 1 ELSE 0]
                  /\ enc' = [enc EXCEPT ![p] = IF next_enc THEN @ + 1 ELSE @]
                  /\ gpu_lock' = LockOnLeave(gpu_lock, retry \/ next_enc)
                  /\ item' = [item EXCEPT
                       ![p].ev = ev1 \o (IF stop THEN <<"done">>
                                         ELSE IF gave_up THEN <<"error">>
                                         ELSE <<>>),
                       ![p].inv = Append(@, label),
                       ![p].over = stop \/ gave_up]
                  /\ pc' = [pc EXCEPT
                       ![p] = IF retry \/ next_enc THEN "hw"
                              ELSE IF hw_failed /\ sw_fallback THEN "sw"
                              ELSE "run"]
                  /\ idx' = [idx EXCEPT
                       ![p] = IF stop \/ gave_up THEN @ + 1 ELSE @]
                  /\ UNCHANGED outcome
  /\ UNCHANGED <<qvars, cfgvars, xvars, handled, last_msg, cur, items, dirs>>

\* the software fallback: its start event, subprocess.run(sw_cmd), then the
\* done event, or the error event and the re-raise.  (The unlink before it
\* finds nothing: hw_failed is set only where out.exists() was false.)
SwAttempt(p) ==
  /\ pc[p] = "sw"
  /\ \E res \in RunResults :
       LET it == item[p] IN
       /\ fs' = IF res = "fail" THEN fs ELSE fs \cup {it.out}
       /\ good' = IF res = "ok" THEN good \cup {it.out} ELSE good
       /\ item' = [item EXCEPT
            ![p].ev = it.ev \o <<"start", IF res = "ok" THEN "done" ELSE "error">>,
            ![p].inv = Append(@, "software"),
            ![p].over = TRUE]
       /\ IF res = "ok"
            THEN /\ idx' = [idx EXCEPT ![p] = @ + 1]
                 /\ pc' = [pc EXCEPT ![p] = "run"]
                 /\ UNCHANGED outcome
            ELSE /\ pc' = [pc EXCEPT ![p] = "finally"]
                 /\ outcome' = [outcome EXCEPT ![p] = "raised"]
                 /\ UNCHANGED idx
  /\ UNCHANGED <<qvars, cfgvars, xvars, handled, last_msg, cur, items, enc, attempt,
                 gpu_lock, dirs>>

\* except Exception: logging.exception(...); finally: task_done
AckUnlessRaised(p) == outcome[p] # "raised"

Acks(p) == TRUE

\* a worker loop that ends with the exception of a job
StopsOnRaise(p) == IF outcome[p] = "raised" THEN "stopped" ELSE "get"

\* while True: after the finally block the loop is at job_queue.get() again
AfterJob(p) == "get"

WorkerTaskDone(p) ==
  /\ pc[p] = "finally"
  /\ IF ~Acks(p) THEN UNCHANGED <<rows, memvars>>
     ELSE IF backend = "sqlite"
       THEN rows' = DeleteRow(cur[p].queue_id) /\ UNCHANGED memvars
       ELSE MemTaskDoneOp /\ UNCHANGED rows
  /\ pc' = [pc EXCEPT ![p] = AfterJob(p)]
  /\ cur' = [cur EXCEPT ![p] = NoJob]
  /\ items' = [items EXCEPT ![p] = <<>>]
  /\ idx' = [idx EXCEPT ![p] = 0]
  /\ item' = [item EXCEPT ![p] = NoItem]
  /\ UNCHANGED <<qidle, cfgvars, xvars, handled, last_msg, enc, attempt, outcome,
                 gpu_lock,
                 fs, dirs, good>>

\* ------------------------------------------------------- specifications
\* the destination tree at start-up: the mount point alone, or with the
\* two library roots in place
DestTrees ==
  { {<<"/">>, <<"/", "media">>},
    {<<"/">>, <<"/", "media">>, SERIES_DST_BASE, MOVIE_DST_BASE} }

\* the reconciler not running, no work item under the stream planner
RescanIdle ==
  /\ r_dry = FALSE /\ r_allow = FALSE /\ r_batch = 0 /\ r_runs = 0
  /\ r_conn = FALSE /\ r_queue = <<>>
  /\ m_pc = "off" /\ m_in = <<>> /\ m_out = <<>>
  /\ c_pc = "off" /\ c_tries = 0 /\ c_up = TRUE

ItemIdle ==
  /\ i_pc = "off" /\ i_langs = {} /\ i_audio = <<>> /\ i_maps = <<>>
  /\ i_din = NULL /\ i_dout = NULL /\ i_warned = FALSE
  /\ a_pc = "off" /\ a_source_type = "dvd" /\ a_channels = <<>>
  /\ a_maps = <<>> /\ a_args = <<>>

DeintIdle ==
  /\ d_pc = "off" /\ d_direct = FALSE /\ d_hint = "None" /\ d_raw = ""
  /\ d_idet = <<>> /\ d_probes = {} /\ d_eff = "None" /\ d_runs = <<>>

\* ENABLE_AAC_DOWNMIX and AUDIO_MODE: the defaults, the downmix asked for
\* under copy, and under encode
AudioConfigs == {<<FALSE, "auto">>, <<TRUE, "copy">>, <<TRUE, "encode">>}

HostInit ==
  /\ sw_fallback \in BOOLEAN
  /\ \E c \in AudioConfigs : aac_downmix = c[1] /\ audio_mode = c[2]
  /\ handled = 0 /\ last_msg = NoMsg
  /\ enc = [p \in Procs |-> 1]
  /\ attempt = [p \in Procs |-> 0]
  /\ outcome = [p \in Procs |-> "none"]
  /\ item = [p \in Procs |-> NoItem]
  /\ gpu_lock = 0
  /\ fs = {} /\ good = {}
  /\ dirs \in DestTrees

WorkerInit ==
  /\ HostInit
  /\ pc = [p \in Procs |-> "get"]
  /\ cur = [p \in Procs |-> NoJob]
  /\ items = [p \in Procs |-> <<>>]
  /\ idx = [p \in Procs |-> 0]

\* the worker part at rest, under the default configuration
WorkerIdle ==
  /\ WorkerInit
  /\ sw_fallback /\ ~aac_downmix /\ audio_mode = "auto"
  /\ dirs = {<<"/">>, <<"/", "media">>, SERIES_DST_BASE, MOVIE_DST_BASE}

\* the queue alone: the worker part stays at rest
InitQueue == QueueInit /\ WorkerIdle /\ RescanIdle /\ ItemIdle /\ DeintIdle

SpecQueue == InitQueue /\ [][QueueNext]_vars

\* one worker process with the in-memory queue
Init ==
  /\ QueueInit /\ backend = "memory" /\ WorkerInit
  /\ RescanIdle /\ ItemIdle /\ DeintIdle

Next ==
  \/ \E m \in Messages : OnMessage(m)
  \/ WorkerGet(1)
  \/ ItemBegin(1)
  \/ LockAcquire(1)
  \/ HwAttempt(1)
  \/ SwAttempt(1)
  \/ WorkerTaskDone(1)

Spec == Init /\ [][Next]_vars

\* two worker processes on one host and one persistent store, each having
\* claimed one job
GpuJobs ==
  <<Envelope(NoPath, "series", "dvd", <<E01, E02>>, "None"),
    Envelope(LeonDir, "movie", "dvd", <<Leon>>, "True")>>

GpuInit ==
  /\ HostInit /\ RescanIdle /\ ItemIdle /\ DeintIdle
  /\ now = 0 /\ backend = "sqlite" /\ nworkers = 2
  /\ rows = [i \in Procs |-> [payload |-> JsonDumps(GpuJobs[i]),
                              claimed_ts |-> 0]]
  /\ next_rowid = 3
  /\ mq = <<>> /\ mq_unfinished = 0 /\ mq_next = 1
  /\ wpc = [w \in Workers |-> "hold"]
  /\ reclaim_before = [w \in Workers |-> 0]
  /\ sel = [w \in Workers |-> NoSel]
  /\ claimed_ts = [w \in Workers |-> 0]
  /\ held = [w \in Workers |-> JsonLoads(JsonDumps(GpuJobs[w]), w)]
  /\ put_log = [i \in Procs |-> GpuJobs[i]] /\ done_called = {}
  /\ got_id = [w \in Workers |-> w]
  /\ reclaimed = [w \in Workers |-> FALSE]
  /\ died = FALSE
  /\ pc = [p \in Procs |-> "run"]
  /\ cur = [p \in Procs |-> JsonLoads(JsonDumps(GpuJobs[p]), p)]
  /\ items = [p \in Procs |-> MkvFiles(GpuJobs[p])]
  /\ idx = [p \in Procs |-> 1]

GpuNext ==
  \/ \E p \in Procs : ItemBegin(p)
  \/ \E p \in Procs : LockAcquire(p)
  \/ \E p \in Procs : HwAttempt(p)
  \/ \E p \in Procs : SwAttempt(p)
  \/ \E p \in Procs : WorkerTaskDone(p)

SpecGpu == GpuInit /\ [][GpuNext]_vars

\* ----------------------------------------------- claims about the worker
Count(seq, x) == Cardinality({i \in DOMAIN seq : seq[i] = x})
Range(seq) == {seq[i] : i \in DOMAIN seq}

\* C1: a message whose version is missing, not an integer, or an integer
\* other than 3 is rejected by on_message: handling it changes neither the
\* queue (its entries, its counters, the persistent rows) nor the worker,
\* its work items, the GPU lock or the destination tree.
C1_VersionGate ==
  [][(handled' = handled + 1
      /\ last_msg'.version # <<"int", MQTT_PAYLOAD_VERSION>>)
       => UNCHANGED <<mq, mq_unfinished, mq_next, rows, pc, cur, items, item,
                      gpu_lock, fs, dirs, good>>]_vars

\* a version-4 message was handled after a version-3 one, whose job is
\* still the only one queued
C1_Witness ==
  /\ handled = 2 /\ last_msg.version = <<"int", 4>>
  /\ Len(mq) = 1 /\ mq_unfinished = 1

\* C4 as stated: the worker acknowledges a job only after transcode_dir
\* returned normally for it.
C4_AckOnlyOnSuccess ==
  [][mq_unfinished' < mq_unfinished => outcome[1] = "returned"]_vars

\* C4, amended: the worker acknowledges every job it took exactly once, and
\* only when transcode_dir has ended for it, by returning or by raising;
\* until then the job counts as unfinished.
C4_AckOnceWhenEnded ==
  /\ [](mq_unfinished = Len(mq) + (IF pc[1] = "get" THEN 0 ELSE 1))
  /\ [][mq_unfinished' # mq_unfinished /\ handled' = handled
          => /\ pc[1] = "finally" /\ outcome[1] \in {"returned", "raised"}
             /\ mq_unfinished' = mq_unfinished - 1]_vars

\* a job whose processing raised has been acknowledged
C4_Witness ==
  pc[1] = "get" /\ outcome[1] = "raised" /\ mq_unfinished = Len(mq)

\* C7: when a work item has ended in error, no output file of it exists.
C7_NoOutputAfterError ==
  \A p \in Procs :
    (item[p].over /\ Count(item[p].ev, "error") > 0) => item[p].out \notin fs

\* C8: for a source that is not VC-1 the encoder invocations made for a
\* work item are a prefix of (qsv x3, vaapi x3, software), of the first six with the
\* software fallback disabled; an item that is over has ended with a
\* successful invocation or has run through the whole sequence.
EncoderSequence ==
  IF sw_fallback
    THEN <<"qsv", "qsv", "qsv", "vaapi", "vaapi", "vaapi", "software">>
    ELSE <<"qsv", "qsv", "qsv", "vaapi", "vaapi", "vaapi">>

C8_EncoderSequence ==
  \A p \in Procs :
    (item[p].inv # <<>> /\ item[p].codec # "vc1")
      => /\ IsPrefix(item[p].inv, EncoderSequence)
         /\ Count(item[p].inv, "software") <= 1
         /\ item[p].over
              => \/ item[p].out \in good
                 \/ item[p].inv = EncoderSequence

\* C9: no two worker processes are inside a hardware-encoder attempt at the
\* same time, and a process inside one holds the GPU lock.
C9_GpuExclusive ==
  \A p \in Procs :
    pc[p] = "hw"
      => /\ gpu_lock = p
         /\ \A q \in Procs : pc[q] = "hw" => q = p

\* one process has run a hardware attempt and is about to run the next
\* while the other waits for the lock
C9_Witness ==
  /\ pc[1] = "hw" /\ item[1].inv # <<>>
  /\ pc[2] = "lock" /\ gpu_lock = 1

\* C10 as stated: a work item that is over has exactly one start event and
\* exactly one terminal event.
C10_OneStartOneTerminal ==
  \A p \in Procs :
    item[p].over
      => /\ Count(item[p].ev, "start") = 1
         /\ Count(item[p].ev, "done") + Count(item[p].ev, "error") = 1

\* C10, amended: a work item has one start event for each encoder invoked
\* for it so far (none, one, two or three), no terminal event while it is
\* in progress, and exactly one, its last event, once it is over.
C10_Events ==
  \A p \in Procs :
    LET ev == item[p].ev
        terminals == Count(ev, "done") + Count(ev, "error")
    IN /\ Count(ev, "start") = Cardinality(Range(item[p].inv))
       /\ ~item[p].over => terminals = 0
       /\ item[p].over
            => terminals = 1 /\ ev[Len(ev)] \in {"done", "error"}

\* an item went through both hardware encoders with retries and the
\* software fallback: three start events and one done
C10_Witness ==
  /\ item[1].over
  /\ Count(item[1].ev, "start") = 3 /\ Count(item[1].ev, "done") = 1
  /\ Len(item[1].inv) = 7

\* C11: a work item whose destination exists is skipped silently: the step
\* that meets it publishes nothing, starts no encoder and changes no file;
\* and no item ever enters the encoders while the output a successful run
\* wrote for it exists, so a second run over an envelope whose items all
\* succeeded does nothing.
C11_SkipExisting ==
  /\ [][\A p \in Procs :
          (/\ pc[p] = "run" /\ idx[p] <= Len(items[p])
           /\ DestOf(cur[p], items[p][idx[p]]).ok
           /\ DestOf(cur[p], items[p][idx[p]]).out \in fs \cup dirs)
            => /\ UNCHANGED <<item, fs, good, gpu_lock>>
               /\ pc'[p] \in {"run", "finally"}
               /\ pc'[p] = "run" /\ idx'[p] # idx[p]
                    => idx'[p] = idx[p] + 1]_vars
  /\ [](\A p \in Procs :
          pc[p] \in {"lock", "hw", "sw"}
            => item[p].out \notin fs \cup dirs \/ item[p].inv # <<>>)

\* a second job over the same file: its first item, whose output an
\* earlier successful run wrote, has been passed over without any event
C11_Witness ==
  /\ pc[1] = "run" /\ idx[1] = 2 /\ item[1] = NoItem
  /\ DestOf(cur[1], items[1][1]).out \in good
  /\ handled = 2 /\ mq = <<>>

\* C12: the destination of a work item depends only on mode, source_type
\* and the source file: every accepted envelope with the same mode and
\* source_type that selects the file plans the destination the worker has
\* in hand for it.
C12_DestFunction ==
  \A p \in Procs :
    item[p].file # NoPath =>
      \A m \in Messages :
        (/\ Accepted(m)
         /\ IntakeMode(m) = cur[p].mode
         /\ IntakeSourceType(m) = cur[p].source_type
         /\ item[p].file \in Range(MkvFiles(IntakeJob(m))))
          => DestOf(IntakeJob(m), item[p].file)
               = [ok |-> TRUE, out |-> item[p].out]

\* ======================================================================
\* The reconciler (rescan.py)
\* ======================================================================

\* reconciler runs started during one behaviour
MaxScans == 1

\* chunk_list(ready_mkvs, 5)
BATCH_SIZE == 5

\* SOURCE_TYPE, the default source type
SOURCE_TYPE == "dvd"

\* what probe_height may return: None, a DVD height, a Blu-ray height
Heights == {NULL, 576, 1080}

\* collect_source_roots(src_base, default_type)
collect_source_roots ==
  LET found == SelectSeq(<<"dvd", "bluray">>,
                         LAMBDA t : SrcExists(SRC_BASE \o <<t>>))
  IN IF found # <<>>
       THEN [i \in DOMAIN found |->
               [type |-> found[i], root |-> SRC_BASE \o <<found[i]>>]]
       ELSE <<[type |-> SOURCE_TYPE, root |-> SRC_BASE]>>

\* a listing that keeps the intermediates
ScanAll(base) ==
  SelectSeq(SrcFileList, LAMBDA f : IsPrefix(base, f) /\ f # base)

\* src_base.rglob("*.mkv") without the files is_temp_mkv skips
ScanMkvs(base) ==
  SelectSeq(SrcFileList,
            LAMBDA f : IsPrefix(base, f) /\ f # base /\ ~is_temp_mkv(f))

\* the files collect_missing_series_dirs / collect_missing_movie_dirs
\* report for one source base: those whose dst_base / rel does not exist
MissingUnder(src_base, dst_base) ==
  IF ~SrcExists(src_base) THEN <<>>
  ELSE SelectSeq(ScanMkvs(src_base),
                 LAMBDA f : ~Exists(dst_base \o RelativeTo(f, src_base)))

\* the dict {directory: [files]} as a sequence of groups, one for each
\* directory in the order of the listing (which is sorted by directory)
GroupDirs(files) ==
  LET first(i) == \A k \in 1..(i - 1) : Parent(files[k]) # Parent(files[i])
      firsts == SelectSeq([i \in DOMAIN files |-> i], first)
  IN [k \in DOMAIN firsts |-> Parent(files[firsts[k]])]

Groups(files, mode, root) ==
  LET ds == GroupDirs(files)
  IN [k \in DOMAIN ds |->
        [mode |-> mode, dir |-> ds[k], type |-> root.type,
         files |-> SelectSeq(files, LAMBDA f : Parent(f) = ds[k])]]

\* scan_results flattened in the order the publish loop walks them: for
\* each source root its series directories, then its movie directories
RECURSIVE ScanFrom(_)
ScanFrom(k) ==
  LET roots == collect_source_roots IN
  IF k > Len(roots) THEN <<>>
  ELSE Groups(MissingUnder(roots[k].root \o SERIES_SUBPATH, SERIES_DST_BASE),
              "series", roots[k])
       \o Groups(MissingUnder(roots[k].root \o MOVIE_SUBPATH, MOVIE_DST_BASE),
                 "movie", roots[k])
       \o ScanFrom(k + 1)

Scan == ScanFrom(1)

RECURSIVE FilesOf(_)
FilesOf(groups) ==
  IF groups = <<>> THEN {}
  ELSE {groups[1].files[i] : i \in DOMAIN groups[1].files}
       \cup FilesOf(Tail(groups))

\* filter_ready_mkvs(mkvs, allow_failures) for the probed heights hs
Ready(files, hs, allow) ==
  LET keep == SelectSeq([i \in DOMAIN files |-> i],
                        LAMBDA i : hs[i] # NULL \/ allow)
  IN [k \in DOMAIN keep |-> files[keep[k]]]

SampleHeight(hs) ==
  IF \E i \in DOMAIN hs : hs[i] # NULL
    THEN hs[MinOf({i \in DOMAIN hs : hs[i] # NULL})]
    ELSE NULL

\* classify_height, None as ""
classify_height(h) ==
  IF h <= 576 THEN "dvd" ELSE IF h >= 720 THEN "bluray" ELSE ""

\* detect_source_type that returns None instead of the fallback
DetectNoFallback(fallback, sample_height, probed) ==
  LET h == IF sample_height # NULL THEN sample_height ELSE probed
  IN IF h # NULL THEN classify_height(h) ELSE ""

\* detect_source_type without a .source_type marker in the tree: the sample
\* height, or the one probed now when there is none
detect_source_type(fallback, sample_height, probed) ==
  LET h == IF sample_height # NULL THEN sample_height ELSE probed
  IN IF h # NULL /\ classify_height(h) # "" THEN classify_height(h)
     ELSE fallback

\* chunk_list(items, size)
chunk_list(its, size) ==
  IF size <= 0 THEN <<its>>
  ELSE [k \in 1..((Len(its) + size - 1) \div size) |->
          SubSeq(its, (k - 1) * size + 1,
                 IF k * size < Len(its) THEN k * size ELSE Len(its))]

\* the payloads of one directory group
Payloads(g, ready, source_type) ==
  LET batches == chunk_list(ready, BATCH_SIZE)
  IN [k \in DOMAIN batches |->
        Msg(<<"int", MQTT_PAYLOAD_VERSION>>, g.dir, batches[k], g.mode,
            source_type, "None")]

\* what the publish loop may publish for one directory group, over the
\* heights probe_height may report for its files
GroupOutcomes(g) ==
  { LET ready == Ready(g.files, hs, r_allow)
        st == detect_source_type(g.type, SampleHeight(hs), probed)
    IN IF ready = <<>> THEN <<>> ELSE Payloads(g, ready, st) :
      hs \in [DOMAIN g.files -> Heights], probed \in Heights }

\* ... and for the directory groups in turn
RECURSIVE PublishOutcomes(_)
PublishOutcomes(groups) ==
  IF groups = <<>> THEN {<<>>}
  ELSE { first \o rest : first \in GroupOutcomes(groups[1]),
                         rest \in PublishOutcomes(Tail(groups)) }

quiet == <<qvars, wvars, ivars, dvars>>

\* parse_args: the parser knows --dry-run, --env-file and
\* --allow-ffprobe-failures and exits with a usage error on anything else
ParseArgsFails == r_batch # 0

\* one run of main(): parse_args, the scan, the early return when nothing
\* is missing, build_mqtt_client and connect_mqtt, the publish loop over
\* the directory groups (a dry run logs instead of publishing), disconnect
RescanRun ==
  /\ r_runs < MaxScans
  /\ r_runs' = r_runs + 1
  /\ IF ParseArgsFails \/ Scan = <<>>
       THEN r_conn' = FALSE /\ UNCHANGED r_queue
       ELSE \E out \in PublishOutcomes(Scan) :
            /\ r_conn' = TRUE
            /\ r_queue' = IF r_dry THEN r_queue ELSE r_queue \o out
  /\ UNCHANGED <<r_dry, r_allow, r_batch, mvars, cvars, quiet>>

\* the broker delivers the next published envelope to the worker's intake
RescanDeliver ==
  /\ r_queue # <<>>
  /\ Intake(r_queue[1])
  /\ r_queue' = Tail(r_queue)
  /\ UNCHANGED <<r_dry, r_allow, r_batch, r_runs, r_conn, mvars, cvars,
                 ivars, dvars>>

\* what the ripper publishes meanwhile: a disc's directory to scan, and a
\* list of files that names an intermediate
RipperMessages ==
  { Msg(<<"int", 3>>, ShowDir, <<>>, "", "", "None"),
    Msg(<<"int", 3>>, NoPath, <<TempMkv, E02>>, "series", "dvd", "False") }

\* the reconciler, the broker and one worker process with the in-memory
\* queue; the ripper's messages arrive as well
RescanInit ==
  /\ QueueInit /\ backend = "memory" /\ WorkerIdle /\ ItemIdle /\ DeintIdle
  /\ r_runs = 0 /\ r_conn = FALSE /\ r_queue = <<>>
  /\ m_pc = "off" /\ m_in = <<>> /\ m_out = <<>>
  /\ c_pc = "off" /\ c_tries = 0 /\ c_up = TRUE
  /\ r_dry \in BOOLEAN /\ r_allow \in BOOLEAN /\ r_batch \in {0, 2}

RescanNext ==
  \/ RescanRun
  \/ RescanDeliver
  \/ \E m \in RipperMessages : OnMessage(m)
  \/ WorkerGet(1)
  \/ ItemBegin(1)
  \/ LockAcquire(1)
  \/ HwAttempt(1)
  \/ SwAttempt(1)
  \/ WorkerTaskDone(1)

SpecRescan == RescanInit /\ [][RescanNext]_vars

\* ------------------------- the reconciler's source type of one directory
\* find_source_type_marker (70-86), parse_source_type (50-56) and
\* detect_source_type (121-138) for one directory.
\* directories on the walk from the directory up to the source root
MaxDepth == 2

\* a directory's .source_type: no such file, a file whose read_text raises
\* OSError, or its content
MarkerStates == {"absent", "unreadable", "dvd", "BluRay ", "vhs", ""}

\* parse_source_type(value), None as ""
parse_source_type(value) ==
  CASE value = "dvd" -> "dvd"
    [] value = "BluRay " -> "bluray"
    [] OTHER -> ""

\* the walk to the first recognised marker, past markers of any other
\* content
MarkerNearestValid(markers) ==
  LET valid == {k \in DOMAIN markers : parse_source_type(markers[k]) # ""}
  IN IF valid = {} THEN ""
     ELSE parse_source_type(markers[MinOf(valid)])

\* find_source_type_marker(start_dir, stop_dir): markers[1] is start_dir's
find_source_type_marker(markers) ==
  LET files == {k \in DOMAIN markers :
                  markers[k] \notin {"absent", "unreadable"}}
  IN IF files = {} THEN ""
     ELSE parse_source_type(markers[MinOf(files)])

\* heights of the sample file: none (ffprobe failed) and values on both
\* sides of the two thresholds
DetectHeights == {NULL, 480, 576, 577, 719, 720, 1080}

\* detect_source_type(start_dir, stop_dir, fallback, sample, sample_height)
DetectOutcome(in) ==
  LET marker == find_source_type_marker(in.markers)
  IN IF marker # ""
       THEN [type |-> marker, probed |-> FALSE]
       ELSE [type |-> detect_source_type(in.fallback, in.sample_height,
                                         in.probe),
             probed |-> in.sample_height = NULL]

Detect ==
  /\ m_pc = "detect"
  /\ m_out' = DetectOutcome(m_in)
  /\ m_pc' = "detected"
  /\ UNCHANGED <<m_in, r_dry, r_allow, r_batch, r_runs, r_conn, r_queue,
                 cvars, quiet>>

DetectInit ==
  /\ QueueInit /\ backend = "memory" /\ WorkerIdle /\ ItemIdle /\ DeintIdle
  /\ r_dry = FALSE /\ r_allow = FALSE /\ r_batch = 0 /\ r_runs = 0
  /\ r_conn = FALSE /\ r_queue = <<>>
  /\ c_pc = "off" /\ c_tries = 0 /\ c_up = TRUE
  /\ m_pc = "detect" /\ m_out = <<>>
  /\ \E n \in 1..MaxDepth, fallback \in {"dvd", "bluray"},
        sample_height \in DetectHeights, probe \in DetectHeights :
       \E markers \in [1..n -> MarkerStates] :
         m_in = [markers |-> markers, fallback |-> fallback,
                 sample_height |-> sample_height, probe |-> probe]

DetectNext == Detect

SpecDetect == DetectInit /\ [][DetectNext]_vars

\* ---------------------------------------------------------------- C34
\* C34: the source type of a directory is the content of the nearest
\* .source_type marker with a recognised content on the way up to the root,
\* and then no height is probed; without such a marker it is dvd for a
\* sample height of at most 576 and bluray for one of at least 720; and with
\* no height, or one in between, it is the root's default.
C34_MarkerHeightDefault ==
  m_pc = "detected" =>
    LET marker == MarkerNearestValid(m_in.markers)
        h == IF m_in.sample_height # NULL THEN m_in.sample_height
             ELSE m_in.probe
    IN /\ marker # "" => m_out.type = marker /\ ~m_out.probed
       /\ (marker = "" /\ h # NULL /\ h <= 576) => m_out.type = "dvd"
       /\ (marker = "" /\ h # NULL /\ h >= 720) => m_out.type = "bluray"
       /\ (marker = "" /\ (h = NULL \/ (h > 576 /\ h < 720)))
            => m_out.type = m_in.fallback

\* ------------------------------------------ one reconciler run in steps
\* main() of rescan.py with connect_mqtt (182-191) as the loop it is.
\* failed connection attempts counted (the count stops there, the loop
\* does not)
MaxTries == 3

\* parse_args, the scan, the early return when nothing is missing
ConnStart ==
  /\ c_pc = "start"
  /\ c_pc' = IF ParseArgsFails \/ Scan = <<>> THEN "exited" ELSE "connect"
  /\ UNCHANGED <<c_tries, c_up, r_dry, r_allow, r_batch, r_runs, r_conn,
                 r_queue, mvars, quiet>>

\* one turn of connect_mqtt's "while True": client.connect returns, or
\* raises OSError and the loop sleeps 5 s and goes round again
ConnAttempt ==
  /\ c_pc = "connect"
  /\ IF c_up
       THEN /\ c_pc' = "publish" /\ r_conn' = TRUE
            /\ UNCHANGED c_tries
       ELSE /\ c_tries' = IF c_tries < MaxTries THEN c_tries + 1 ELSE c_tries
            /\ UNCHANGED <<c_pc, r_conn>>
  /\ UNCHANGED <<c_up, r_dry, r_allow, r_batch, r_runs, r_queue, mvars, quiet>>

\* the publish loop over the directory groups, disconnect, "done"
ConnPublish ==
  /\ c_pc = "publish"
  /\ \E out \in PublishOutcomes(Scan) :
       r_queue' = IF r_dry THEN r_queue ELSE r_queue \o out
  /\ r_runs' = r_runs + 1
  /\ c_pc' = "exited"
  /\ UNCHANGED <<c_tries, c_up, r_dry, r_allow, r_batch, r_conn, mvars, quiet>>

\* the broker goes away or comes back
BrokerFlip ==
  /\ c_pc \in {"start", "connect"}
  /\ c_up' = ~c_up
  /\ UNCHANGED <<c_pc, c_tries, r_dry, r_allow, r_batch, r_runs, r_conn,
                 r_queue, mvars, quiet>>

ConnInit ==
  /\ QueueInit /\ backend = "memory" /\ WorkerIdle /\ ItemIdle /\ DeintIdle
  /\ r_runs = 0 /\ r_conn = FALSE /\ r_queue = <<>>
  /\ m_pc = "off" /\ m_in = <<>> /\ m_out = <<>>
  /\ c_pc = "start" /\ c_tries = 0 /\ c_up \in BOOLEAN
  /\ r_dry \in BOOLEAN /\ r_allow \in BOOLEAN /\ r_batch \in {0, 2}

ConnNext == ConnStart \/ ConnAttempt \/ ConnPublish \/ BrokerFlip

\* the reconciler's process keeps running, and its connection loop, which
\* comes round every 5 s, does not miss a broker that is reachable again
\* and again; nothing is assumed of the broker
SpecConnect ==
  ConnInit /\ [][ConnNext]_vars
           /\ WF_vars(ConnStart \/ ConnPublish) /\ SF_vars(ConnAttempt)

\* ---------------------------------------------------------------- C35
\* C35: every reconciler run comes to its end, whether the broker is
\* reachable or not.
C35_Terminates == <>(c_pc = "exited")

\* ------------------------------------------- the plan of one work item
\* The stream plan (transcode_dir, 726-762) and the duration check
\* (1020-1031) of one work item, as functions of what ffprobe reports.
MaxStreams == 2

\* the language tags of the source's audio streams ("": no tag), and
\* str.lower on them
Languages == {"eng", "GER", "fra", ""}

LowerLang(l) == IF l = "GER" THEN "ger" ELSE l

\* AUDIO_LANGS = parse_langs(...): the default, one language, and the empty
\* set that AUDIO_LANGS="," gives
AudioLangSets == { {"eng", "ger", "deu"}, {"ger"}, {} }

SourceAudio == UNION { [1..n -> Languages] : n \in 0..MaxStreams }

\* probe_audio_streams: the streams with their indices (the video stream
\* is stream 0), or [] when ffprobe fails
probe_audio_streams(src, probe_ok) ==
  IF probe_ok THEN [k \in DOMAIN src |-> [index |-> k, language |-> src[k]]]
  ELSE <<>>

filter_streams_by_language(streams, allowed) ==
  IF allowed = {} THEN streams
  ELSE SelectSeq(streams, LAMBDA st : LowerLang(st.language) \in allowed)

\* selected_audio
SelectedAudio(audio_streams, allowed) ==
  LET selected == filter_streams_by_language(audio_streams, allowed)
  IN IF audio_streams # <<>> /\ selected = <<>> THEN audio_streams
     ELSE selected

\* the stream indices the loop over selected_audio adds as -map 0:<index>
AudioMaps(selected) ==
  LET with_index == SelectSeq(selected, LAMBDA st : st.index # NULL)
  IN [k \in DOMAIN with_index |-> with_index[k].index]

\* durations in hundredths of a second; NULL is probe_duration's None.  A
\* ripped title has a length; what ffprobe reports for the output may be 0.
Durations == {NULL, 0, 100, 200, 201, 30000, 30300, 30301}

InDurations == Durations \ {0}

Abs(x) == IF x < 0 THEN 0 - x ELSE x

\* Python's truth value of a float or None
Truthy(d) == d # NULL /\ d # 0

\* if in_duration and out_duration: tolerance = max(1.0, in_duration * 0.01);
\* if abs(in_duration - out_duration) > tolerance: logging.warning(...)
DurationWarns(d_in, d_out) ==
  /\ Truthy(d_in) /\ Truthy(d_out)
  /\ 100 * Abs(d_in - d_out) > MaxOf({10000, d_in})

\* the probes and the stream plan of the item
ItemPlan ==
  /\ i_pc = "plan"
  /\ \E probe_ok \in BOOLEAN :
       i_maps' = AudioMaps(SelectedAudio(probe_audio_streams(i_audio, probe_ok),
                                         i_langs))
  /\ i_pc' = "encoded"
  /\ UNCHANGED <<i_langs, i_audio, i_din, i_dout, i_warned, qvars, wvars,
                 rvars, dvars, a_pc, a_source_type, a_channels, a_maps,
                 a_args>>

\* after the encoder has succeeded: the duration check, then the done event
ItemCheck ==
  /\ i_pc = "encoded"
  /\ i_warned' = DurationWarns(i_din, i_dout)
  /\ i_pc' = "done"
  /\ UNCHANGED <<i_langs, i_audio, i_maps, i_din, i_dout, qvars, wvars,
                 rvars, dvars, a_pc, a_source_type, a_channels, a_maps,
                 a_args>>

ItemInit ==
  /\ QueueInit /\ WorkerIdle /\ RescanIdle /\ DeintIdle
  /\ i_pc = "plan" /\ i_maps = <<>> /\ i_warned = FALSE
  /\ i_langs \in AudioLangSets
  /\ i_audio \in SourceAudio
  /\ i_din \in InDurations /\ i_dout \in Durations
  /\ a_pc = "off" /\ a_source_type = "dvd" /\ a_channels = <<>>
  /\ a_maps = <<>> /\ a_args = <<>>

ItemNext == ItemPlan \/ ItemCheck

SpecItem == ItemInit /\ [][ItemNext]_vars

\* ---------------------------------------------------------------- C15
\* C15: once the stream plan of a work item is made, a source with at least
\* one audio stream has at least one audio stream mapped.
C15_AudioKept ==
  (i_pc \in {"encoded", "done"} /\ i_audio # <<>>) => i_maps # <<>>

\* ---------------------------------------------------------------- C16
\* C16: after a successful encode with both durations known the warning is
\* logged exactly when |D_in - D_out| > max(1 s, 1% of D_in), and the done
\* event follows either way.
C16_WarnIff ==
  (i_pc = "done" /\ i_din # NULL /\ i_dout # NULL)
    => (i_warned <=> 100 * Abs(i_din - i_dout) > MaxOf({10000, i_din}))

\* ------------------------------------ the audio arguments of one work item
\* audio_mode_effective, add_downmix, maps and audio_args (transcode_dir,
\* 739-777) with build_audio_args (297-313) and build_downmix_args (316-324),
\* for the streams in selected_audio.
AudioModes == {"auto", "encode", "copy"}

\* what ffprobe reports as a stream's channels: nothing, mono, stereo, 5.1
Channels == {NULL, 1, 2, 6}

SelectedChannels == UNION { [1..n -> Channels] : n \in 0..MaxStreams }

\* build_audio_args(output_index, channels, source_type)
FlatBitrate(channels, source_type) == "640k"

ChannelBitrate(channels, source_type) ==
  IF channels = NULL THEN "640k"
  ELSE IF channels <= 2 THEN "256k"
  ELSE IF source_type = "bluray" THEN "768k" ELSE "640k"

build_audio_args(output_index, channels, source_type) ==
  [out |-> output_index, codec |-> "eac3",
   bitrate |-> ChannelBitrate(channels, source_type), ac |-> NULL]

\* build_downmix_args(output_index)
build_downmix_args(output_index) ==
  [out |-> output_index, codec |-> "aac", bitrate |-> "192k", ac |-> 2]

\* ["-c:a", "copy"]: one codec for every audio stream, no bitrate
CopyArgs == [out |-> NULL, codec |-> "copy", bitrate |-> NULL, ac |-> NULL]

\* add_downmix and selected_audio
AddDownmix(selected, source_type) ==
  aac_downmix /\ AudioModeEffective(source_type) # "copy" /\ selected # <<>>

\* the input streams mapped as audio, in output order (stream k of the
\* selection is input stream k)
AudioPlanMaps(selected, source_type) ==
  [k \in DOMAIN selected |-> k]
    \o (IF AddDownmix(selected, source_type) THEN <<1>> ELSE <<>>)

\* audio_args
AudioArgs(selected, source_type) ==
  (IF AudioModeEffective(source_type) = "copy" THEN <<CopyArgs>>
   ELSE [k \in DOMAIN selected |->
           build_audio_args(k - 1, selected[k], source_type)])
    \o (IF AddDownmix(selected, source_type)
          THEN <<build_downmix_args(Len(selected))>> ELSE <<>>)

AudioPlan ==
  /\ a_pc = "plan"
  /\ a_maps' = AudioPlanMaps(a_channels, a_source_type)
  /\ a_args' = AudioArgs(a_channels, a_source_type)
  /\ a_pc' = "planned"
  /\ UNCHANGED <<a_source_type, a_channels, i_pc, i_langs, i_audio, i_maps,
                 i_din, i_dout, i_warned, qvars, wvars, rvars, dvars>>

\* a new work item comes under the planner
AudioNextItem ==
  /\ a_pc = "planned"
  /\ a_pc' = "plan"
  /\ a_source_type' \in {"dvd", "bluray"}
  /\ a_channels' \in SelectedChannels
  /\ a_maps' = <<>> /\ a_args' = <<>>
  /\ UNCHANGED <<i_pc, i_langs, i_audio, i_maps, i_din, i_dout, i_warned,
                 qvars, wvars, rvars, dvars>>

AudioInit ==
  /\ QueueInit /\ RescanIdle /\ DeintIdle
  /\ sw_fallback = TRUE /\ audio_mode \in AudioModes /\ aac_downmix \in BOOLEAN
  /\ handled = 0 /\ last_msg = NoMsg
  /\ pc = [p \in Procs |-> "get"]
  /\ cur = [p \in Procs |-> NoJob]
  /\ items = [p \in Procs |-> <<>>]
  /\ idx = [p \in Procs |-> 0]
  /\ enc = [p \in Procs |-> 1]
  /\ attempt = [p \in Procs |-> 0]
  /\ outcome = [p \in Procs |-> "none"]
  /\ item = [p \in Procs |-> NoItem]
  /\ gpu_lock = 0
  /\ fs = {} /\ good = {}
  /\ dirs = {<<"/">>, <<"/", "media">>, SERIES_DST_BASE, MOVIE_DST_BASE}
  /\ i_pc = "off" /\ i_langs = {} /\ i_audio = <<>> /\ i_maps = <<>>
  /\ i_din = NULL /\ i_dout = NULL /\ i_warned = FALSE
  /\ a_pc = "plan" /\ a_maps = <<>> /\ a_args = <<>>
  /\ a_source_type \in {"dvd", "bluray"}
  /\ a_channels \in SelectedChannels

AudioNext == AudioPlan \/ AudioNextItem

SpecAudio == AudioInit /\ [][AudioNext]_vars

\* ---------------------------------------------------------------- C32
\* C32: the effective audio policy is encode for bluray and copy for dvd
\* under auto, and the configured one under encode and copy.  Under encode
\* the planned arguments give selected stream k, as output stream k - 1,
\* codec eac3 at 256k for at most 2 channels, at 640k (dvd) or 768k (bluray)
\* for more, and at 640k for an unknown channel count; under copy the
\* arguments are the one codec "copy", with no bitrate for any stream.
C32_AudioPolicy ==
  LET eff == AudioModeEffective(a_source_type) IN
  /\ audio_mode = "auto"
       => eff = (IF a_source_type = "bluray" THEN "encode" ELSE "copy")
  /\ audio_mode # "auto" => eff = audio_mode
  /\ a_pc = "planned" =>
       /\ eff = "encode" =>
            \A k \in DOMAIN a_channels :
              /\ a_args[k].out = k - 1 /\ a_args[k].codec = "eac3"
              /\ a_args[k].bitrate =
                   (CASE a_channels[k] = NULL -> "640k"
                      [] a_channels[k] # NULL /\ a_channels[k] <= 2 -> "256k"
                      [] a_channels[k] # NULL /\ a_channels[k] > 2
                           -> IF a_source_type = "bluray" THEN "768k"
                              ELSE "640k")
       /\ eff = "copy" =>
            /\ a_args = <<CopyArgs>>
            /\ \A k \in DOMAIN a_args : a_args[k].bitrate = NULL

\* a bluray item under auto whose stereo stream gets 256k and whose 5.1
\* stream gets 768k
C32_Witness ==
  /\ a_pc = "planned" /\ audio_mode = "auto" /\ a_source_type = "bluray"
  /\ a_channels = <<2, 6>>
  /\ a_args[1].bitrate = "256k" /\ a_args[2].bitrate = "768k"

\* ------------------------------- the interlace decision of one work item
\* detect_interlaced (122-196), its use in transcode_dir (719-724) and the
\* video filters of the three command builders (346-369, 821, 850, 877).
MaxAttempts == 3

\* what the field-order probe prints ("FAIL": check_output raises)
FieldOrderOutputs == {"FAIL", "tt", "TB", "progressive", "unknown", "", "mixed"}

\* out.strip().lower()
LowerField(raw) == IF raw = "TB" THEN "tb" ELSE raw

\* field_order after the probe
FieldOrder(raw) == IF raw = "FAIL" THEN "" ELSE LowerField(raw)

\* run_idet: <<>> for None (ffmpeg failed, no counts in its output), else
\* <<tff, bff, progressive, undetermined>>
IdetOutputs ==
  { <<>>, <<0, 0, 0, 5>>, <<2, 1, 1, 0>>, <<1, 0, 3, 0>>, <<1, 1, 2, 0>> }

\* decide_idet(counts): "True", "False" or "None"
decide_idet(counts) ==
  LET interlaced == counts[1] + counts[2]
      progressive == counts[3]
  IN IF interlaced = 0 /\ progressive = 0 THEN "None"
     ELSE IF interlaced > progressive THEN "True"
     ELSE IF progressive > interlaced THEN "False"
     ELSE "None"

\* idet_decision = decide_idet(idet_counts) if idet_counts else None
IdetDecision(counts) == IF counts # <<>> THEN decide_idet(counts) ELSE "None"

\* detect_interlaced(path): the decision and the probes it runs
detect_interlaced(raw, counts) ==
  LET field_order == FieldOrder(raw)
  IN IF field_order \in {"tt", "bb", "tb", "bt"}
       THEN [eff |-> "True", probes |-> {"field_order"}]
     ELSE [probes |-> {"field_order", "idet"},
           eff |-> IF IdetDecision(counts) = "True" THEN "True"
                   ELSE IF IdetDecision(counts) = "False" THEN "False"
                   ELSE IF field_order = "progressive" THEN "False"
                   ELSE IF field_order \in {"unknown", ""} THEN "True"
                   ELSE IF field_order # "" THEN "False"
                   ELSE "None"]

\* interlaced_effective of transcode_dir
InterlacedEffective(hint, raw, counts) ==
  IF hint = "True" THEN [eff |-> "True", probes |-> {}]
  ELSE IF hint = "False" THEN [eff |-> "False", probes |-> {}]
  ELSE detect_interlaced(raw, counts)

\* the -vf filter chains, as sequences of filters (<<>>: no -vf)
BWDIF_FILTER == "bwdif=mode=send_frame:parity=auto:deint=all"

\* build_video_filter without the deinterlacer
HwUploadOnly(interlaced, hwupload) ==
  IF hwupload THEN <<"format=p010le", "hwupload=extra_hw_frames=64">> ELSE <<>>

build_video_filter(interlaced, hwupload) ==
  (IF interlaced = "True" THEN <<BWDIF_FILTER>> ELSE <<>>)
  \o (IF hwupload THEN <<"format=p010le", "hwupload=extra_hw_frames=64">>
      ELSE <<>>)

build_sw_filter(interlaced) ==
  IF interlaced = "True" THEN <<BWDIF_FILTER>> ELSE <<>>

build_qsv_filter(interlaced, qsv_direct) ==
  LET vpp == IF interlaced = "True" THEN "vpp_qsv=deinterlace=1"
             ELSE "vpp_qsv=deinterlace=0"
  IN IF qsv_direct THEN <<vpp>>
     ELSE <<"format=nv12", "hwupload=extra_hw_frames=64", vpp>>

\* vf of build_qsv_cmd, build_vaapi_cmd, build_sw_cmd
VideoFilter(label, interlaced, qsv_direct) ==
  CASE label = "qsv" -> build_qsv_filter(interlaced, qsv_direct)
    [] label = "vaapi" -> build_video_filter(interlaced, TRUE)
    [] OTHER -> build_sw_filter(interlaced)

\* whether a filter chain deinterlaces
Deinterlaces(vf) ==
  \E k \in DOMAIN vf : vf[k] \in {BWDIF_FILTER, "vpp_qsv=deinterlace=1"}

\* lines 719-724: the decision for the item
DeintDecide ==
  /\ d_pc = "hint"
  /\ LET r == InterlacedEffective(d_hint, d_raw, d_idet)
     IN d_eff' = r.eff /\ d_probes' = r.probes
  /\ d_pc' = "decided"
  /\ UNCHANGED <<d_direct, d_hint, d_raw, d_idet, d_runs, qvars, wvars, rvars,
                 ivars>>

\* one encoder attempt: cmd_builder() builds the command anew
DeintAttempt(label) ==
  /\ d_pc = "decided"
  /\ Len(d_runs) < MaxAttempts
  /\ d_runs' = Append(d_runs, [encoder |-> label,
                               vf |-> VideoFilter(label, d_eff, d_direct)])
  /\ UNCHANGED <<d_pc, d_direct, d_hint, d_raw, d_idet, d_probes, d_eff,
                 qvars, wvars, rvars, ivars>>

DeintInit ==
  /\ QueueInit /\ backend = "memory" /\ WorkerIdle /\ RescanIdle /\ ItemIdle
  /\ d_pc = "hint" /\ d_probes = {} /\ d_eff = "None" /\ d_runs = <<>>
  /\ d_direct \in BOOLEAN
  /\ d_hint \in {"None", "True", "False"}
  /\ d_raw \in FieldOrderOutputs
  /\ d_idet \in IdetOutputs

DeintNext ==
  \/ DeintDecide
  \/ \E label \in {"qsv", "vaapi", "software"} : DeintAttempt(label)

SpecDeint == DeintInit /\ [][DeintNext]_vars

\* ---------------------------------------------------------------- C22
\* C22: the decision follows the priority: the envelope's hint; else the
\* field order when it denotes interlaced (interlaced) or is "progressive"
\* (progressive); else the majority of the frame analysis; else, with the
\* field order unknown or empty and the analysis indeterminate, interlaced.
C22_Priority ==
  d_pc = "decided" =>
    LET f == FieldOrder(d_raw)
    IN /\ d_hint = "True" => d_eff = "True"
       /\ d_hint = "False" => d_eff = "False"
       /\ d_hint = "None" =>
            /\ f \in {"tt", "bb", "tb", "bt"} => d_eff = "True"
            /\ f = "progressive" => d_eff = "False"
            /\ (f \in {"unknown", ""} /\ IdetDecision(d_idet) # "None")
                 => d_eff = IdetDecision(d_idet)
            /\ (f \in {"unknown", ""} /\ IdetDecision(d_idet) = "None")
                 => d_eff = "True"

\* ---------------------------------------------------------------- C23
\* C23: without a hint, the result is interlaced for a field order that
\* denotes interlaced, progressive for "progressive", and undetermined
\* when the field-order probe fails.
C23_DetectResults ==
  (d_pc = "decided" /\ d_hint = "None") =>
    /\ d_raw \in {"tt", "TB"} => d_eff = "True"
    /\ d_raw = "progressive" => d_eff = "False"
    /\ d_raw = "FAIL" => d_eff = "None"

\* ---------------------------------------------------------------- C24
\* C24: with the hint true neither the field-order probe nor the frame
\* analysis is run and every encoder attempt has a deinterlacing filter;
\* with the hint false neither is run and no attempt has one.
C24_HintRulesFilters ==
  (d_pc = "decided" /\ d_hint # "None") =>
    /\ d_probes = {}
    /\ \A k \in DOMAIN d_runs : Deinterlaces(d_runs[k].vf) <=> d_hint = "True"

\* three attempts under the hint true, one for each encoder
C24_Witness ==
  /\ d_hint = "True" /\ Len(d_runs) = 3
  /\ {d_runs[k].encoder : k \in DOMAIN d_runs} = {"qsv", "vaapi", "software"}

\* ---------------------------------------------------------------- C27
\* the persistent queue of one worker process over a store that other
\* writers may put poison payloads in
PoisonInit ==
  /\ QueueInit /\ backend = "sqlite" /\ nworkers = 1
  /\ WorkerIdle /\ RescanIdle /\ ItemIdle /\ DeintIdle

PoisonNext ==
  \/ \E job \in QueueJobs : Put(1, job)
  \/ \E payload \in PoisonPayloads : PoisonPut(payload)
  \/ ClaimBegin(1)
  \/ ClaimSelect(1)
  \/ ClaimStamp(1)
  \/ ClaimUpdate(1)
  \/ TaskDone(1)
  \/ Crash(1)
  \/ Tick

SpecPoison == PoisonInit /\ [][PoisonNext]_vars

\* C27: get() never returns a row whose payload is not a JSON object: the
\* get() that meets such a row deletes it, leaves every other row as it is
\* and returns nothing, so that the next SELECT finds the rows behind it;
\* a job that is held was put as a valid job.
C27_PoisonContained ==
  /\ [](\A w \in Workers :
          wpc[w] = "hold" => /\ got_id[w] \in DOMAIN put_log
                             /\ Fields(held[w]) = put_log[got_id[w]])
  /\ [][\A w \in Workers :
          (/\ wpc[w] = "update" /\ wpc'[w] # "update" /\ ~died'
           /\ sel[w].id \in DOMAIN rows
           /\ rows[sel[w].id].payload \in PoisonPayloads
           /\ Claimable(rows[sel[w].id], reclaim_before[w]))
            => /\ wpc'[w] = "idle"
               /\ DOMAIN rows' = DOMAIN rows \ {sel[w].id}
               /\ \A i \in DOMAIN rows' : rows'[i] = rows[i]]_vars

\* the poison row 1 is gone and the worker holds the valid job behind it
C27_Witness ==
  /\ wpc[1] = "hold" /\ got_id[1] = 2 /\ ~died
  /\ DOMAIN rows = {2} /\ DOMAIN put_log = {2}

\* ------------------------------------------------------ the intake alone
\* on_message over messages that differ in path, files, mode, source_type
\* and interlaced; the worker does not run.
GoneDir == SRC_BASE \o <<"dvd">> \o SERIES_SUBPATH \o <<"Gone">>

V3 == <<"int", MQTT_PAYLOAD_VERSION>>

IntakeMessages ==
  \* path and files, present or not
  { Msg(V3, path, files, "series", "dvd", "None") :
      path \in {NoPath, ShowDir, GoneDir}, files \in {<<>>, <<E01, E02>>} }
  \cup { Msg(V3, LeonDir, files, "movie", "dvd", "None") :
           files \in {<<>>, <<Leon>>} }
  \* mode and source_type missing or invalid, to be inferred from the path
  \cup { Msg(V3, path, <<E01>>, mode, "", "None") :
           path \in {NoPath, ShowDir, GoneDir, SRC_BASE, SRC_BASE \o <<"dvd">>},
           mode \in {"", "Series"} }
  \cup { Msg(V3, LeonDir, <<>>, "", "DVD", "None"),
         Msg(V3, LeonDir, <<>>, "series", "bluray", "None"),
         Msg(V3, SRC_BASE \o <<"dvd">>, <<>>, "movie", "", "None") }
  \* the interlaced hint
  \cup { Msg(V3, NoPath, <<E02>>, "series", "dvd", hint) :
           hint \in {"True", "False", "str"} }
  \* an old version
  \cup { Msg(<<"int", 2>>, ShowDir, <<E01, E02>>, "series", "dvd", "None") }

IntakeInit ==
  /\ QueueInit /\ backend = "memory" /\ WorkerIdle
  /\ RescanIdle /\ ItemIdle /\ DeintIdle

IntakeNext == \E m \in IntakeMessages : OnMessage(m)

SpecIntake == IntakeInit /\ [][IntakeNext]_vars

\* ---------------------------------------------------------------- C25
\* C25: the intake enqueues the job of a version-3 message only if the
\* message's path exists or its files list is not empty; with neither the
\* queue is unchanged, and so it is on every rejection.  An enqueued job
\* carries exactly the message's files, and when there are files the work
\* set is made of them alone: the existing files of the list that are no
\* intermediates, whatever the path holds.
C25_PathOrFiles ==
  [][handled' = handled + 1 =>
       LET m == last_msg'
           path_ok == m.path # NoPath /\ SrcExists(m.path)
       IN /\ mq' # mq => m.version = V3 /\ (path_ok \/ m.files # <<>>)
          /\ (~path_ok /\ m.files = <<>>) => mq' = mq
          /\ mq' = mq => UNCHANGED <<mq_next, mq_unfinished, rows>>
          /\ mq' # mq =>
               /\ Len(mq') = Len(mq) + 1 /\ SubSeq(mq', 1, Len(mq)) = mq
               /\ mq_unfinished' = mq_unfinished + 1
               /\ LET job == mq'[Len(mq')].job
                  IN /\ job.files = m.files
                     /\ job.path = (IF path_ok THEN m.path ELSE NoPath)
                     /\ m.files # <<>> =>
                          MkvFiles(job) =
                            SelectSeq(m.files, LAMBDA f : SrcExists(f)
                                                          /\ f # TempMkv)
     ]_vars

\* a message with neither was rejected; then one with both an existing path
\* and files was enqueued
C25_Witness ==
  /\ handled = 2 /\ Len(mq) = 1
  /\ mq[1].job.path = LeonDir /\ mq[1].job.files = <<Leon>>
  /\ last_msg.path = LeonDir

\* ---------------------------------------------------------------- C26
\* C26: every queued job has a mode in {series, movie}, a source_type in
\* {dvd, bluray} and an interlaced hint that is true, false or null.  A
\* valid mode or source_type of the message is kept; a missing or invalid
\* one is replaced by the value inferred from the segments of the existing
\* path, and the message is rejected when there is none; a message whose
\* interlaced value is not a boolean is rejected; a message that passes
\* these tests and the ones on version, path and files is enqueued.
C26_JobFields ==
  /\ [](\A k \in DOMAIN mq :
          /\ mq[k].job.mode \in {"series", "movie"}
          /\ mq[k].job.source_type \in {"dvd", "bluray"}
          /\ mq[k].job.interlaced \in {"None", "True", "False"})
  /\ [][handled' = handled + 1 =>
          LET m == last_msg'
              path_ok == m.path # NoPath /\ SrcExists(m.path)
              lower == IF path_ok THEN PartsLower(m.path) ELSE {}
              mode == IF m.mode \in {"series", "movie"} THEN m.mode
                      ELSE IF "filme" \in lower THEN "movie"
                      ELSE IF "serien" \in lower THEN "series" ELSE ""
              styp == IF m.source_type \in {"dvd", "bluray"} THEN m.source_type
                      ELSE IF "bluray" \in lower THEN "bluray"
                      ELSE IF "dvd" \in lower THEN "dvd" ELSE ""
          IN /\ (mode = "" \/ styp = "") => mq' = mq
             /\ m.interlaced \notin {"None", "True", "False"} => mq' = mq
             /\ (/\ m.version = V3 /\ (path_ok \/ m.files # <<>>)
                 /\ mode # "" /\ styp # ""
                 /\ m.interlaced \in {"None", "True", "False"}) => mq' # mq
             /\ mq' # mq => /\ mq'[Len(mq')].job.mode = mode
                            /\ mq'[Len(mq')].job.source_type = styp
                            /\ mq'[Len(mq')].job.interlaced = m.interlaced
       ]_vars

\* a job whose mode and source type were inferred from its path is queued,
\* and the message with the non-boolean hint has been rejected after it
C26_Witness ==
  /\ handled = 2 /\ Len(mq) = 1
  /\ mq[1].job = Envelope(ShowDir, "series", "dvd", <<E01>>, "None")
  /\ last_msg.interlaced = "str"

C14_NoRequeue ==
  [][/\ (\E p \in Procs : pc[p] \in {"run", "lock", "hw", "sw", "finally"}
                          /\ pc'[p] # pc[p])
          => mq' = mq /\ mq_next' = mq_next
     /\ mq' # mq
          => \/ /\ mq # <<>> /\ mq' = Tail(mq)
                /\ \E p \in Procs : pc[p] = "get" /\ pc'[p] = "run"
             \/ /\ handled' = handled + 1
                /\ mq_next' = mq_next + 1
                /\ mq' = Append(mq, [id |-> mq_next,
                                     job |-> IntakeJob(last_msg')])]_vars

\* a job whose processing raised has been acknowledged; the worker waits
\* for its next job and the queue holds the other job only
C14_Witness ==
  /\ pc[1] = "get" /\ outcome[1] = "raised"
  /\ handled = MaxMsgs /\ Len(mq) = 1 /\ mq[1].id = 2 /\ mq_unfinished = 1

\* ---------------------------------------------------------------- C17
\* C17: in a run that publishes, no envelope has more files than the
\* configured batch size (the --batch-size value, 5 without the option),
\* and the files of the envelopes published in the run are together exactly
\* the source files the scan found missing.
C17_BatchesCoverMissing ==
  [][(r_runs' = r_runs + 1 /\ ~r_dry)
       => LET published == SubSeq(r_queue', Len(r_queue) + 1, Len(r_queue'))
              size == IF r_batch # 0 THEN r_batch ELSE BATCH_SIZE
          IN /\ \A k \in DOMAIN published : Len(published[k].files) <= size
             /\ FilesOf(published) = FilesOf(Scan)]_vars

\* ---------------------------------------------------------------- C18
\* C18: a dry run builds no MQTT client and opens no broker connection.
C18_DryRunNoConnection == r_dry => ~r_conn

\* ---------------------------------------------------------------- C19
\* C19: at every moment, the scan counts a source file as missing exactly
\* when the destination the worker computes for it, from the envelope the
\* reconciler publishes for its directory, does not exist.
C19_MissingIffWorkerDest ==
  \A f \in {E01, E02, Leon} :
    LET root == collect_source_roots[1]
        mode == IF IsPrefix(root.root \o MOVIE_SUBPATH, f) THEN "movie"
                ELSE "series"
        job == Envelope(Parent(f), mode, root.type, <<f>>, "None")
        dest == DestOf(job, f)
    IN f \in FilesOf(Scan) <=> ~(dest.ok /\ Exists(dest.out))

\* ---------------------------------------------------------------- C20
\* C20: collect_missing_movie_dirs reports a source movie exactly when
\* neither an output of its name directly under the movie destination root
\* nor an output at the mirrored relative path exists.
C20_FlattenedOrMirrored ==
  LET movie_src_base == collect_source_roots[1].root \o MOVIE_SUBPATH
      reported == MissingUnder(movie_src_base, MOVIE_DST_BASE)
  IN \A f \in {Leon} :
       (\E k \in DOMAIN reported : reported[k] = f)
         <=> /\ ~Exists(MOVIE_DST_BASE \o <<Name(f)>>)
             /\ ~Exists(MOVIE_DST_BASE \o RelativeTo(f, movie_src_base))

\* ---------------------------------------------------------------- C21
\* C21: every envelope the reconciler has published carries version 3, a
\* mode in {series, movie}, a source_type in {dvd, bluray}, a non-empty
\* list of absolute file paths and the null interlaced hint, and passes the
\* worker's intake validation; when the broker delivers it, the intake
\* puts its job on the queue.
C21_EnvelopesAccepted ==
  /\ [](\A k \in DOMAIN r_queue :
          LET m == r_queue[k]
          IN /\ m.version = <<"int", 3>>
             /\ m.mode \in {"series", "movie"}
             /\ m.source_type \in {"dvd", "bluray"}
             /\ m.files # <<>>
             /\ \A i \in DOMAIN m.files : m.files[i][1] = "/"
             /\ m.interlaced = "None"
             /\ Accepted(m))
  /\ [][(r_queue # <<>> /\ r_queue' = Tail(r_queue))
          => mq' = Append(mq, [id |-> mq_next, job |-> IntakeJob(r_queue[1])])
       ]_vars

\* the envelope for the series directory has been delivered and its job is
\* on the queue; the envelope for the movie waits at the broker
C21_Witness ==
  /\ r_runs = 1 /\ handled = 1
  /\ Len(mq) = 1 /\ mq[1].job.path = ShowDir /\ mq[1].job.files = <<E01, E02>>
  /\ Len(r_queue) = 1 /\ r_queue[1].mode = "movie"

\* C28: a process makes a hardware-encoder invocation only while it holds
\* the GPU lock, which it took before the item's first one; it holds the
\* lock for as long as it is between hardware attempts of the item; once it
\* has left them (the item done, all hardware encoders exhausted, or an
\* exception inside the block) it holds the lock no longer; and the software
\* encoder is invoked without the lock.
C28_LockScope ==
  /\ [](\A p \in Procs :
          /\ pc[p] = "hw" => gpu_lock = p
          /\ pc[p] # "hw" => gpu_lock # p)
  /\ [][\A p \in Procs :
          Len(item'[p].inv) = Len(item[p].inv) + 1
            => LET label == item'[p].inv[Len(item'[p].inv)]
               IN /\ label # "software" => gpu_lock = p /\ pc[p] = "hw"
                  /\ (label # "software" /\ pc'[p] = "hw") => gpu_lock' = p
                  /\ label = "software" => gpu_lock # p /\ gpu_lock' # p]_vars

\* one process runs the software fallback of its item while the other,
\* holding the lock, is between two hardware attempts
C28_Witness ==
  /\ pc[1] = "sw" /\ Len(item[1].inv) = 6
  /\ pc[2] = "hw" /\ gpu_lock = 2 /\ item[2].inv # <<>>

\* C29: each hardware encoder is invoked at most MAX_HW_RETRIES times for
\* one work item, and while the item is between two hardware attempts its
\* output file does not exist.
C29_HwRetryBound ==
  \A p \in Procs :
    /\ Count(item[p].inv, "qsv") <= MAX_HW_RETRIES
    /\ Count(item[p].inv, "vaapi") <= MAX_HW_RETRIES
    /\ (pc[p] = "hw" /\ item[p].inv # <<>>) => item[p].out \notin fs

\* C30: a work item gets its error event only when every configured encoder
\* has been run for it as often as it may be (each hardware encoder of its
\* codec, and the software encoder if the fallback is enabled); and the step
\* that publishes the error event of an item that is not the job's last
\* goes on to the next item of the job.
C30_ErrorAfterAllThenGoOn ==
  /\ [](\A p \in Procs :
          Count(item[p].ev, "error") > 0
            => /\ \A i \in DOMAIN Encoders(item[p].codec) :
                    Count(item[p].inv, Encoders(item[p].codec)[i])
                      = MAX_HW_RETRIES + 1
               /\ sw_fallback => Count(item[p].inv, "software") = 1)
  /\ [][\A p \in Procs :
          (/\ Count(item'[p].ev, "error") > Count(item[p].ev, "error")
           /\ idx[p] < Len(items[p]))
            => /\ pc'[p] = "run"
               /\ idx'[p] = idx[p] + 1]_vars

\* C31: one worker process has one job and one work item in hand at a time.
\* It takes a job only when it has none, and gives it up only by its
\* task_done.  Within the job a work item is started only when the item
\* before it is over, it is the item at the loop's position, and that
\* position lies behind the position of the item before; events are
\* published only for the item in hand, while it is not over, under the job
\* in hand.  And whatever the worker is doing, the intake handles the next
\* message at once.
C31_OneJobOneItem ==
  /\ [][\A p \in Procs :
          /\ cur'[p] # cur[p]
               => \/ pc[p] = "get" /\ item[p] = NoItem /\ pc'[p] = "run"
                  \/ pc[p] = "finally" /\ pc'[p] = "get" /\ item'[p] = NoItem
          /\ (item'[p] # item[p] /\ item'[p].ev = <<>> /\ item'[p] # NoItem)
               => /\ cur'[p] = cur[p]
                  /\ item'[p].file = items[p][idx[p]]
                  /\ \/ item[p] = NoItem
                     \/ /\ item[p].over
                        /\ \E i \in 1..(idx[p] - 1) :
                             items[p][i] = item[p].file
          /\ Len(item'[p].ev) > Len(item[p].ev)
               => /\ ~item[p].over
                  /\ cur'[p] = cur[p]
                  /\ item'[p].file = item[p].file
                  /\ IsPrefix(item[p].ev, item'[p].ev)]_vars
  /\ [](handled < MaxMsgs => \A m \in Messages : ENABLED OnMessage(m))

\* the worker is between two hardware attempts of the second item of its
\* job, the first item being done, while the job of a later message waits
\* in the queue
C31_Witness ==
  /\ pc[1] = "hw" /\ idx[1] = 2 /\ item[1].inv # <<>>
  /\ item[1].file = items[1][2]
  /\ handled = 2 /\ Len(mq) = 1

\* C33: with the stereo downmix enabled and an effective audio policy other
\* than copy a work item is encoded like any other: when it is over, an
\* encoder was invoked for it, and if an invocation succeeded it has ended
\* in done.
C33_DownmixEncodes ==
  \A p \in Procs :
    (/\ item[p].over /\ aac_downmix
     /\ AudioModeEffective(cur[p].source_type) # "copy")
      => /\ item[p].inv # <<>>
         /\ item[p].out \in good => Count(item[p].ev, "done") = 1

\* C36: when a reconciler run has published, the worker has taken every
\* envelope of it and is at rest, and every source file has the output of a
\* successful encoder run at the destination the worker computes for it from
\* the reconciler's envelope, the next scan finds nothing missing.
C36_Converges ==
  (/\ r_runs = 1 /\ ~r_dry /\ r_queue = <<>> /\ mq = <<>> /\ pc[1] = "get"
   /\ \A f \in {E01, E02, Leon} :
        LET root == collect_source_roots[1]
            mode == IF IsPrefix(root.root \o MOVIE_SUBPATH, f) THEN "movie"
                    ELSE "series"
            dest == DestOf(Envelope(Parent(f), mode, root.type, <<f>>,
                                    "None"), f)
        IN dest.ok /\ dest.out \in good)
    => Scan = <<>>

\* C37: the destination planned for a movie work item is a path strictly
\* below the movie destination root whose last component is the name of the
\* source file.
C37_MovieDestBelowRoot ==
  \A p \in Procs :
    (pc[p] = "run" /\ idx[p] <= Len(items[p]) /\ cur[p].mode = "movie")
      => LET mkv == items[p][idx[p]]
             d == DestOf(cur[p], mkv)
         IN /\ d.ok
            /\ IsPrefix(MOVIE_DST_BASE, d.out)
            /\ Len(d.out) > Len(MOVIE_DST_BASE)
            /\ Name(d.out) = Name(mkv)

\* C38: a job that a worker holds under a live claim has its row in the
\* store: no task_done of another worker has deleted it.
C38_LiveClaimKeepsRow ==
  \A w \in Workers : Live(w) => got_id[w] \in DOMAIN rows

\* C39: a work item for which a done event has been published has an output
\* that a successful encoder invocation wrote.
C39_DoneOnlyAfterSuccess ==
  \A p \in Procs :
    Count(item[p].ev, "done") > 0 => item[p].out \in good

\* ---------------------------------------------------------------- C40
\* the worker thread under a fair scheduler: it is a thread of its own
\* (threading.Thread(target=worker_loop)), every child process it waits for
\* terminates and the GPU lock is granted, so a step of the worker that is
\* possible is taken in the end.  The broker is under no obligation to
\* deliver a message.
WorkerStep ==
  \/ WorkerGet(1)
  \/ ItemBegin(1)
  \/ LockAcquire(1)
  \/ HwAttempt(1)
  \/ SwAttempt(1)
  \/ WorkerTaskDone(1)

SpecLive == Init /\ [][Next]_vars /\ WF_vars(WorkerStep)

\* C40: every job on the queue is in the end taken and acknowledged (the
\* jobs are numbered as they are put, taken first in first out, and the
\* number of acknowledgements reaches the job's number); each
\* acknowledgement is made by the worker at the end of the job it has in
\* hand, by one, whether the job returned or raised; a worker that has a
\* job whose processing raised is in the end back at get(); and the intake
\* callback can handle a message in every state, whatever the worker is
\* doing and whatever the messages before it were.
C40_EveryJobAcked ==
  /\ \A i \in 1..MaxMsgs :
       (\E k \in DOMAIN mq : mq[k].id = i)
         ~> (/\ \A k \in DOMAIN mq : mq[k].id # i
             /\ (mq_next - 1) - mq_unfinished >= i)
  /\ [][mq_unfinished' < mq_unfinished
          => /\ pc[1] = "finally" /\ pc'[1] = "get"
             /\ mq_unfinished' = mq_unfinished - 1
             /\ mq_unfinished' = Len(mq')]_vars
  /\ (pc[1] = "finally" /\ outcome[1] = "raised") ~> (pc[1] = "get")
  /\ [](handled < MaxMsgs => \A m \in Messages : ENABLED OnMessage(m))

\* two jobs were put, both have been taken and acknowledged, the second
\* after its processing raised, and the worker waits in get() again
C40_Witness ==
  /\ handled = 2 /\ mq_next = 3 /\ mq = <<>> /\ mq_unfinished = 0
  /\ pc[1] = "get" /\ outcome[1] = "raised"

====
